---------------------------- MODULE Spec2Model ----------------------------
(***************************************************************************)
(* valian-ca/firebase-functions: the Sentry wrapper layer                  *)
(* (packages/sentry/src/sentry-wrapper.ts), the beforeSend hook of         *)
(* initSentry (packages/sentry/src/init-sentry.ts), and the pino           *)
(* forwarding destination (packages/pino-logger/src/logger.ts).            *)
(*                                                                         *)
(* External collaborators (@sentry/node, firebase-functions' logger, the   *)
(* function logger) are the environment: each call of one of them either   *)
(* returns or throws / rejects, chosen nondeterministically.               *)
(* captureException hands its callback a clone of the current scope, as    *)
(* the SDK does.                                                           *)
(*                                                                         *)
(* Also modelled: handleNotAwaitedPromise, markEventUnhandled, the logger  *)
(* facade and createLogger, the options initSentry hands to init, and two  *)
(* wrapped invocations in flight at the same time. Each part has its own   *)
(* specification; the variables of the other parts stay idle in it.        *)
(***************************************************************************)
EXTENDS Integers, Sequences, FiniteSets, TLC

VARIABLES
  \* ---- wrapper layer (sentry-wrapper.ts) ----
  nodeEnv,       \* process.env.NODE_ENV
  wrapped,       \* the wrapped handler: [variant, name] (wrap(options, handler))
  pc,            \* position of the current call of the wrapped handler
  args,          \* the arguments the runtime passed to the current call
  span,          \* spans started by the current call: Seq of [name, op]
  scope,         \* the invocation scope handed out by withScope
  trace,         \* the events of the current call, in order
  handlerArgs,   \* arguments of every user-handler call made by the current call
  workResult,    \* how the user handler settled
  pending,       \* the completion travelling out of the try block
  loggerCalls,   \* calls of logger.error
  captureCalls,  \* calls of captureException
  flushCalls,    \* calls of flush (their timeout argument)
  flushOut,      \* how the awaited flush settled
  result,        \* how the wrapped call settled, as its caller sees it
  calls,         \* completed calls of the wrapped handler
  \* ---- pino forwarding destination (logger.ts) ----
  logLine,       \* the line given to the last firebaseDestination.write
  fwCalls,       \* records given to firebaseLogger.write by the last write
  fwOutcomes,    \* how each of those calls ended
  writeThrew,    \* whether the last firebaseDestination.write threw
  wrote,         \* whether write has been called
  \* ---- pinoLevelToSeverity applied to two levels ----
  lvA, lvB, sevA, sevB,
  \* ---- beforeSend hook (init-sentry.ts) ----
  chain,         \* hint.originalException and its causes: chain[i+1] is the cause of chain[i]
  event,         \* the outgoing event, mutated in place
  event0,        \* the event as it was handed to beforeSend
  sendPc,        \* position of the hook
  walkPos,       \* the exception the walk is looking at
  applied,       \* positions of the layers whose beforeSend has run, in order
  \* ---- handleNotAwaitedPromise (handle-not-awaited-promise.ts) ----
  napPromise,    \* the promise argument: undefined, pending, resolved or rejected
  napHint,       \* the hint argument ("undefined" when omitted)
  napPc,         \* position of the caller around the call
  napHandler,    \* the callback given to promise.catch: none, attached, ran, skipped
  napCaptureCalls, \* calls of captureException made by the callback
  napUnhandled,  \* errors the runtime reported as unhandled rejections
  napCalls,      \* completed calls of handleNotAwaitedPromise
  \* ---- markEventUnhandled on a scope of its own (sentry-wrapper.ts) ----
  markScope,     \* the scope markEventUnhandled is applied to (mutated in place)
  markBefore,    \* that scope as it was before the last call
  markReturned,  \* what the last call returned
  markCount,     \* calls of markEventUnhandled made on the scope
  markEventIn,   \* the last event the SDK ran through the scope's processors
  markEventOut,  \* what the processors returned for it
  mechCalls,     \* calls of addExceptionMechanism made for it
  \* ---- logger facade (logger/src/logger.ts) and createLogger (pino-logger) ----
  env,           \* process.env: FUNCTIONS_EMULATOR, NODE_ENV, LOG_LEVEL
  facLoaded,     \* whether the facade module has been evaluated
  facMode,       \* which logger the facade's `logger` is
  facMinLevel,   \* minLevel handed to TSLogger
  facEnv,        \* process.env as it was when the facade module was evaluated
  facCall,       \* the last call of a facade method: [method, args]
  facOut,        \* what that call emitted
  pinoMode,      \* which pino logger the last createLogger call built
  pinoLevel,     \* the level it was built with
  pinoEnv,       \* process.env as it was at that call
  \* ---- initSentry (init-sentry.ts) ----
  initArg,       \* the argument of the last initSentry call: [given, fields]
  initConfig,    \* the options object that call handed to the SDK's init
  initPc,        \* "idle", "configured" (init called), "resolved" (integrations set up)
  initInstalled, \* the integrations the SDK set up from that configuration
  \* ---- wrapped invocations in flight at the same time (sentry-wrapper.ts) ----
  handlers,      \* the wrapped handler each invocation is a call of: [variant, name]
  inv,           \* per invocation: position, arguments, span, scope, outcome, calls made
  globalScope    \* the SDK's scope outside any invocation, which withScope forks

wrapVars == <<nodeEnv, wrapped, pc, args, span, scope, trace, handlerArgs, workResult,
              pending, loggerCalls, captureCalls, flushCalls, flushOut, result, calls>>
logVars  == <<logLine, fwCalls, fwOutcomes, writeThrew, wrote>>
sevVars  == <<lvA, lvB, sevA, sevB>>
sendVars == <<chain, event, event0, sendPc, walkPos, applied>>
napVars  == <<napPromise, napHint, napPc, napHandler, napCaptureCalls, napUnhandled, napCalls>>
markVars == <<markScope, markBefore, markReturned, markCount, markEventIn, markEventOut, mechCalls>>
facVars  == <<env, facLoaded, facMode, facMinLevel, facEnv, facCall, facOut, pinoMode, pinoLevel,
              pinoEnv>>
initVars == <<initArg, initConfig, initPc, initInstalled>>
concVars == <<handlers, inv, globalScope>>
extVars  == <<initVars, concVars>>
coreVars == <<wrapVars, logVars, sevVars, sendVars>>
auxVars  == <<napVars, markVars, facVars, extVars>>
vars     == <<wrapVars, logVars, sevVars, sendVars, auxVars>>

-----------------------------------------------------------------------------
(* Finite maps                                                             *)

EmptyMap == [k \in {} |-> 0]

Put(m, k, v) == [x \in (DOMAIN m) \cup {k} |-> IF x = k THEN v ELSE m[x]]

\* {...a, ...b}: object spread, the keys of b override those of a
Spread(a, b) == [x \in (DOMAIN a) \cup (DOMAIN b) |-> IF x \in DOMAIN b THEN b[x] ELSE a[x]]

-----------------------------------------------------------------------------
(* Wrapper layer: data                                                     *)

MaxCalls == 2

FlushTimeout == 5000

V1Variants == {"onPublishV1", "onWriteV1", "onUserChangeV1", "onScheduleRunV1"}
V2Variants == {"onDocumentChange", "onMessagePublished"}
OwnV2Variants == {"onSchedule", "onTaskDispatched"}
TriggerVariants == V1Variants \cup V2Variants \cup OwnV2Variants
\* "configuration" is sentryConfigurationWrapper called directly by user code
Variants == TriggerVariants \cup {"configuration"}

Names      == {"fnA", "fnB"}
EventTypes == {"typeX", "typeY"}
Payloads   == {"p1", "p2"}
Values     == {"v1", "v2"}
Errors     == {"e1", "e2"}

\* variants whose configure step evaluates something that can throw:
\* message.json (a getter), snapshot.data() / JSON.stringify, user-supplied configure
ThrowingConfigure == {"onPublishV1", "onWriteV1", "onMessagePublished", "configuration"}

Args == [eventType : EventTypes, payload : Payloads, readable : BOOLEAN]

\* values of process.env.NODE_ENV ("unset": the variable is not set)
WrapNodeEnvs == {"production", "development", "unset"}

Pending     == [kind |-> "pending",  val |-> "none"]
Resolved(v) == [kind |-> "resolved", val |-> v]
Rejected(e) == [kind |-> "rejected", val |-> e]

ScopeId == "scope"
CloneId == "clone"

NewScope(id) == [id |-> id, tags |-> EmptyMap, contexts |-> EmptyMap, user |-> <<>>,
                 processors |-> <<>>]

NoScope == [id |-> "none", tags |-> EmptyMap, contexts |-> EmptyMap, user |-> <<>>,
            processors |-> <<>>]

Ev(name, on) == [ev |-> name, on |-> on]

SetTag(k, v)     == [op |-> "setTag", key |-> k, val |-> <<v>>]
SetContext(k, v) == [op |-> "setContext", key |-> k, val |-> v]
SetUser(v)       == [op |-> "setUser", key |-> "id", val |-> <<v>>]

ApplyOp(s, o) ==
  CASE o.op = "setTag"     -> [s EXCEPT !.tags = Put(@, o.key, o.val[1])]
    [] o.op = "setContext" -> [s EXCEPT !.contexts = Put(@, o.key, o.val)]
    [] o.op = "setUser"    -> [s EXCEPT !.user = o.val]

RECURSIVE ApplyOps(_, _)
ApplyOps(s, ops) == IF ops = <<>> THEN s ELSE ApplyOps(ApplyOp(s, Head(ops)), Tail(ops))

OpEvents(ops, id) == [i \in 1..Len(ops) |-> Ev(ops[i].op, id)]

-----------------------------------------------------------------------------
(* Wrapper layer: what each variant passes down                            *)

\* sentryInvocationV1Wrapper: the span context, the scope mutations of its configure
\* callback in call order, and whether work goes through the capture wrapper
\* mutant of sentryInvocationV1Wrapper: the legacy wrappers tag the scope as v2
sentryInvocationV1WrapperTaggedV2(name, a, configure) ==
  [context   |-> [name |-> name, op |-> a.eventType],
   configure |-> configure \o <<SetTag("function.version", "v2"),
                                SetTag("function.name", name),
                                SetContext("Firebase Context", <<a.payload, a.eventType>>)>>,
   capture   |-> TRUE]

sentryInvocationV1Wrapper(name, a, configure) ==
  [context   |-> [name |-> name, op |-> a.eventType],
   configure |-> configure \o <<SetTag("function.version", "v1"),
                                SetTag("function.name", name),
                                SetContext("Firebase Context", <<a.payload, a.eventType>>)>>,
   capture   |-> TRUE]

sentryOnPublishV1Wrapper(name, a) ==
  sentryInvocationV1Wrapper(name, a, <<SetContext("PubSub Message", <<a.payload>>)>>)

sentryOnWriteV1Wrapper(name, a) ==
  sentryInvocationV1Wrapper(name, a, <<SetContext("Firestore Document", <<a.payload>>)>>)

sentryOnUserChangeV1Wrapper(name, a) ==
  sentryInvocationV1Wrapper(name, a, <<SetUser(a.payload)>>)

sentryOnScheduleRunV1Wrapper(name, a) ==
  sentryInvocationV1Wrapper(name, a, <<>>)

sentryInvocationV2Wrapper(name, a, configure) ==
  [context   |-> [name |-> name, op |-> a.eventType],
   configure |-> configure \o <<SetTag("function.version", "v2"),
                                SetTag("function.name", name),
                                SetContext("Firebase Context", <<a.payload, a.eventType>>)>>,
   capture   |-> TRUE]

sentryWrapOnDocumentChange(name, a) ==
  sentryInvocationV2Wrapper(name, a, <<SetContext("Firestore Document", <<a.payload>>)>>)

sentryWrapOnMessagePublished(name, a) ==
  sentryInvocationV2Wrapper(name, a, <<SetContext("PubSub Message", <<a.payload>>)>>)

\* mutant of sentryWrapOnSchedule: the span's op is read from the event
sentryWrapOnScheduleOpFromEvent(name, a) ==
  [context   |-> [name |-> name, op |-> a.eventType],
   configure |-> <<SetContext("scheduledEvent", <<a.payload>>),
                   SetTag("function.version", "v2"),
                   SetTag("function.name", name)>>,
   capture   |-> TRUE]

sentryWrapOnSchedule(name, a) ==
  [context   |-> [name |-> name, op |-> "on-schedule"],
   configure |-> <<SetContext("scheduledEvent", <<a.payload>>),
                   SetTag("function.version", "v2"),
                   SetTag("function.name", name)>>,
   capture   |-> TRUE]

sentryWrapOnTaskDispatched(name, a) ==
  [context   |-> [name |-> name, op |-> "on-task-dispatched"],
   configure |-> <<SetTag("function.version", "v2"),
                   SetTag("function.name", name),
                   SetContext("Task Request", <<a.payload>>)>>,
   capture   |-> TRUE]

\* sentryConfigurationWrapper called by user code: context, configure and work are the
\* caller's own, and work is not wrapped by sentryCaptureUnhandledExceptionWrapper
directConfigurationCall(name, a) ==
  [context   |-> [name |-> name, op |-> a.eventType],
   configure |-> <<SetTag("function.type", "custom")>>,
   capture   |-> FALSE]

Plan(w, a) ==
  CASE w.variant = "onPublishV1"        -> sentryOnPublishV1Wrapper(w.name, a)
    [] w.variant = "onWriteV1"          -> sentryOnWriteV1Wrapper(w.name, a)
    [] w.variant = "onUserChangeV1"     -> sentryOnUserChangeV1Wrapper(w.name, a)
    [] w.variant = "onScheduleRunV1"    -> sentryOnScheduleRunV1Wrapper(w.name, a)
    [] w.variant = "onDocumentChange"   -> sentryWrapOnDocumentChange(w.name, a)
    [] w.variant = "onMessagePublished" -> sentryWrapOnMessagePublished(w.name, a)
    [] w.variant = "onSchedule"         -> sentryWrapOnSchedule(w.name, a)
    [] w.variant = "onTaskDispatched"   -> sentryWrapOnTaskDispatched(w.name, a)
    [] w.variant = "configuration"      -> directConfigurationCall(w.name, a)

\* the configure step throws: the first thing it evaluates (message.json, data(),
\* JSON.stringify, or the caller's own configure) throws before any scope call
ConfigureThrows(w, a) == w.variant \in ThrowingConfigure /\ ~a.readable

ConfigureOps(w, a) == IF ConfigureThrows(w, a) THEN <<>> ELSE Plan(w, a).configure

\* markEventUnhandled: one more event processor on the scope, the same scope returned
markEventUnhandled(s) == [s EXCEPT !.processors = Append(@, "handledFalse")]

\* mutant of captureCallback: the scope is handed back without being marked
captureCallbackUnmarked(s) == s

\* the callback given to captureException (captureContext is undefined at every call
\* site, so `captureContext?.(scope) ?? scope` is the scope just marked)
captureCallback(s) == markEventUnhandled(s)

-----------------------------------------------------------------------------
(* Wrapper layer: one call of the wrapped handler                          *)

\* mutant of handlerCall: the handler is called without the event
handlerCallWithoutEvent(a) == [payload |-> "none", eventType |-> a.eventType]

\* () => handler(message, context) / () => handler(event): the user handler gets the
\* arguments of the wrapped call
handlerCall(a) == [payload |-> a.payload, eventType |-> a.eventType]

\* mutant of workReached: work() is called even when configure threw
workReachedAlways(throws) == TRUE

\* configure(scope); return work(): work is called only if configure returned
workReached(throws) == ~throws

WrapIdle ==
  /\ pc = "idle" /\ args = [eventType |-> "typeX", payload |-> "p1", readable |-> TRUE]
  /\ span = <<>> /\ scope = NoScope /\ trace = <<>> /\ handlerArgs = <<>>
  /\ workResult = Pending /\ pending = Pending
  /\ loggerCalls = <<>> /\ captureCalls = <<>> /\ flushCalls = <<>> /\ flushOut = "none"
  /\ result = Pending

InitWrap ==
  /\ nodeEnv \in WrapNodeEnvs
  /\ wrapped \in [variant : Variants, name : Names]
  /\ calls = 0
  /\ WrapIdle

\* mutant of startEvents: work() is called before configure(scope)
startEventsWorkFirst(ops, throws) ==
  <<Ev("startSpan", "none"), Ev("withScope", ScopeId)>>
    \o (IF throws THEN <<Ev("configureThrows", "none")>> ELSE <<Ev("handlerStart", "none")>>)
    \o OpEvents(ops, ScopeId)

\* events of the synchronous start of sentryConfigurationWrapper: startSpan runs its
\* callback, withScope hands out the scope, configure mutates it, work() is called
startEvents(ops, throws) ==
  <<Ev("startSpan", "none"), Ev("withScope", ScopeId)>>
    \o OpEvents(ops, ScopeId)
    \o (IF throws THEN <<Ev("configureThrows", "none")>> ELSE <<Ev("handlerStart", "none")>>)

\* The runtime calls the wrapped handler: sentryConfigurationWrapper enters its try
\* block and runs startSpan -> withScope -> configure(scope) -> work() up to the first
\* suspension (the user handler's promise).
Invoke(a) ==
  /\ pc = "idle"
  /\ a.readable \/ wrapped.variant \in ThrowingConfigure
  /\ LET plan   == Plan(wrapped, a)
         throws == ConfigureThrows(wrapped, a)
         ops    == ConfigureOps(wrapped, a)
     IN /\ args' = a
        /\ span' = Append(span, plan.context)
        /\ scope' = ApplyOps(NewScope(ScopeId), ops)
        /\ trace' = trace \o startEvents(ops, throws)
        /\ IF ~workReached(throws)
             THEN /\ pc' = "finally"
                  /\ pending' = Rejected("configureError")
                  /\ UNCHANGED handlerArgs
             ELSE /\ pc' = "running"
                  /\ handlerArgs' = Append(handlerArgs, handlerCall(a))
                  /\ UNCHANGED pending
  /\ UNCHANGED <<nodeEnv, wrapped, workResult, loggerCalls, captureCalls, flushCalls,
                 flushOut, result, calls>>
  /\ UNCHANGED <<logVars, sevVars, sendVars, auxVars>>

\* the user handler's promise resolves
HandlerResolves(v) ==
  /\ pc = "running"
  /\ workResult' = Resolved(v)
  /\ trace' = Append(trace, Ev("handlerResolved", "none"))
  /\ pc' = "settled"
  /\ UNCHANGED <<nodeEnv, wrapped, args, span, scope, handlerArgs, pending, loggerCalls,
                 captureCalls, flushCalls, flushOut, result, calls>>
  /\ UNCHANGED <<logVars, sevVars, sendVars, auxVars>>

\* the user handler's promise rejects (or the handler throws)
HandlerRejects(e) ==
  /\ pc = "running"
  /\ workResult' = Rejected(e)
  /\ trace' = Append(trace, Ev("handlerRejected", "none"))
  /\ pc' = "settled"
  /\ UNCHANGED <<nodeEnv, wrapped, args, span, scope, handlerArgs, pending, loggerCalls,
                 captureCalls, flushCalls, flushOut, result, calls>>
  /\ UNCHANGED <<logVars, sevVars, sendVars, auxVars>>

\* mutant of notProduction: only NODE_ENV = 'development' counts
notProductionDevelopmentOnly(v) == v = "development"

\* process.env.NODE_ENV !== 'production'
notProduction(v) == v # "production"

\* sentryCaptureUnhandledExceptionWrapper after `await work()`: return the value, or
\* run the catch block: logger.error unless NODE_ENV is production, captureException
\* with the marking callback, throw error. logOut / capOut: how logger.error and
\* captureException end.
sentryCaptureUnhandledExceptionWrapper(logOut, capOut) ==
  /\ pc = "settled"
  /\ Plan(wrapped, args).capture
  /\ IF workResult.kind = "resolved"
       THEN /\ pending' = workResult
            /\ UNCHANGED <<loggerCalls, captureCalls, trace>>
       ELSE LET e      == workResult.val
                logs   == notProduction(nodeEnv)
                logEv  == IF logs THEN <<Ev("loggerError", "none")>> ELSE <<>>
                given  == [scope EXCEPT !.id = CloneId]
            IN /\ loggerCalls' =
                    IF logs
                      THEN Append(loggerCalls, [msg |-> "Unhandled exception", err |-> e,
                                                threw |-> (logOut = "throw")])
                      ELSE loggerCalls
               /\ IF logs /\ logOut = "throw"
                    THEN /\ pending' = Rejected("loggerError")
                         /\ trace' = trace \o logEv
                         /\ UNCHANGED captureCalls
                    ELSE IF capOut = "throw"
                    THEN /\ pending' = Rejected("captureError")
                         /\ captureCalls' = Append(captureCalls,
                               [err |-> e, given |-> NoScope, returned |-> NoScope,
                                threw |-> TRUE])
                         /\ trace' = trace \o logEv
                               \o <<Ev("captureStart", "none"), Ev("captureEnd", "none")>>
                    ELSE /\ pending' = Rejected(e)
                         /\ captureCalls' = Append(captureCalls,
                               [err |-> e, given |-> given,
                                returned |-> captureCallback(given), threw |-> FALSE])
                         /\ trace' = trace \o logEv
                               \o <<Ev("captureStart", "none"),
                                    Ev("addEventProcessor", CloneId),
                                    Ev("captureEnd", "none")>>
  /\ pc' = "finally"
  /\ UNCHANGED <<nodeEnv, wrapped, args, span, scope, handlerArgs, workResult, flushCalls,
                 flushOut, result, calls>>
  /\ UNCHANGED <<logVars, sevVars, sendVars, auxVars>>

\* sentryConfigurationWrapper called directly: work is the caller's own function, its
\* settlement goes straight to the finally block
WorkSettlesUnwrapped ==
  /\ pc = "settled"
  /\ ~Plan(wrapped, args).capture
  /\ pending' = workResult
  /\ pc' = "finally"
  /\ UNCHANGED <<nodeEnv, wrapped, args, span, scope, trace, handlerArgs, workResult,
                 loggerCalls, captureCalls, flushCalls, flushOut, result, calls>>
  /\ UNCHANGED <<logVars, sevVars, sendVars, auxVars>>

\* mutant of finallyFlush: the finally block does not call flush
finallyWithoutFlush ==
  /\ pc = "finally"
  /\ pc' = "flushing"
  /\ UNCHANGED <<nodeEnv, wrapped, args, span, scope, trace, handlerArgs, workResult,
                 pending, loggerCalls, captureCalls, flushCalls, flushOut, result, calls>>
  /\ UNCHANGED <<logVars, sevVars, sendVars, auxVars>>

\* finally { await flush(5000) }: the call
finallyFlush ==
  /\ pc = "finally"
  /\ flushCalls' = Append(flushCalls, FlushTimeout)
  /\ trace' = Append(trace, Ev("flushStart", "none"))
  /\ pc' = "flushing"
  /\ UNCHANGED <<nodeEnv, wrapped, args, span, scope, handlerArgs, workResult, pending,
                 loggerCalls, captureCalls, flushOut, result, calls>>
  /\ UNCHANGED <<logVars, sevVars, sendVars, auxVars>>

\* mutant of flushSettles: a rejection of flush is swallowed
flushSettlesSwallowed(out) ==
  /\ pc = "flushing"
  /\ flushOut' = out
  /\ result' = pending
  /\ trace' = trace \o <<Ev("flushEnd", "none"), Ev("settle", "none")>>
  /\ pc' = "done"
  /\ calls' = calls + 1
  /\ UNCHANGED <<nodeEnv, wrapped, args, span, scope, handlerArgs, workResult, pending,
                 loggerCalls, captureCalls, flushCalls>>
  /\ UNCHANGED <<logVars, sevVars, sendVars, auxVars>>

\* the awaited flush settles (true, false on timeout, or a rejection) and the wrapped
\* call settles: a rejection of flush replaces the completion of the try block
flushSettles(out) ==
  /\ pc = "flushing"
  /\ flushOut' = out
  /\ result' = IF out = "reject" THEN Rejected("flushError") ELSE pending
  /\ trace' = trace \o <<Ev("flushEnd", "none"), Ev("settle", "none")>>
  /\ pc' = "done"
  /\ calls' = calls + 1
  /\ UNCHANGED <<nodeEnv, wrapped, args, span, scope, handlerArgs, workResult, pending,
                 loggerCalls, captureCalls, flushCalls>>
  /\ UNCHANGED <<logVars, sevVars, sendVars, auxVars>>

\* the runtime is ready to call the same wrapped handler again
NextCall ==
  /\ pc = "done"
  /\ calls < MaxCalls
  /\ pc' = "idle"
  /\ args' = [eventType |-> "typeX", payload |-> "p1", readable |-> TRUE]
  /\ span' = <<>> /\ scope' = NoScope /\ trace' = <<>> /\ handlerArgs' = <<>>
  /\ workResult' = Pending /\ pending' = Pending
  /\ loggerCalls' = <<>> /\ captureCalls' = <<>> /\ flushCalls' = <<>>
  /\ flushOut' = "none" /\ result' = Pending
  /\ UNCHANGED <<nodeEnv, wrapped, calls>>
  /\ UNCHANGED <<logVars, sevVars, sendVars, auxVars>>

\* process.env.NODE_ENV is changed (tests do so between and during calls)
SetNodeEnv(v) ==
  /\ v # nodeEnv
  /\ nodeEnv' = v
  /\ UNCHANGED <<wrapped, pc, args, span, scope, trace, handlerArgs, workResult, pending,
                 loggerCalls, captureCalls, flushCalls, flushOut, result, calls>>
  /\ UNCHANGED <<logVars, sevVars, sendVars, auxVars>>

NextWrap ==
  \/ \E a \in Args : Invoke(a)
  \/ \E v \in Values : HandlerResolves(v)
  \/ \E e \in Errors : HandlerRejects(e)
  \/ \E l, c \in {"return", "throw"} : sentryCaptureUnhandledExceptionWrapper(l, c)
  \/ WorkSettlesUnwrapped
  \/ finallyFlush
  \/ \E out \in {"true", "false", "reject"} : flushSettles(out)
  \/ NextCall
  \/ \E v \in WrapNodeEnvs : SetNodeEnv(v)

-----------------------------------------------------------------------------
(* pino forwarding destination (logger.ts)                                 *)

\* JSON values, tagged by type; Undefined is JavaScript's undefined
Num(n)    == [t |-> "num", n |-> n]
Str(x)    == [t |-> "str", s |-> x]
Undefined == [t |-> "undefined"]
JsonNull  == [t |-> "null"]
Obj(f)    == [t |-> "obj", f |-> f]
\* a JSON string at top level, as its characters (destructuring sees its index keys)
TopString(chars) == [t |-> "topstr", chars |-> chars]

\* a log line: its raw text, and the value it denotes when it is valid JSON
\* (json = <<>> when the text is not JSON)
Line(raw, json) == [raw |-> raw, json |-> json]

LineLevels == {10, 29, 30, 40, 59, 60}

BookkeepingFields == ("time" :> Num(1700000000)) @@ ("pid" :> Num(4242)) @@ ("hostname" :> Str("host"))

\* fields a caller or child logger can add to an entry
UserKeys == {"userId", "severity", "message"}
UserFields == UNION {[S -> {Str("fromUser")}] : S \in SUBSET UserKeys}

PinoEntries ==
  {Obj(lv @@ m @@ BookkeepingFields @@ u) :
      lv \in {EmptyMap} \cup {("level" :> Num(n)) : n \in LineLevels},
      m  \in {EmptyMap, ("msg" :> Str("hello"))},
      u  \in UserFields}

Lines ==
  {Line("{entry}", <<e>>) : e \in PinoEntries}
    \cup {Line("null", <<JsonNull>>), Line("42", <<Num(42)>>),
          Line("\"ab\"", <<TopString(<<"a", "b">>)>>),
          Line("plain text", <<>>), Line("{\"level\":30,", <<>>)}

\* JavaScript's `level < n` for a value that may be undefined (NaN compares false)
LessThan(level, n) == level.t = "num" /\ level.n < n

\* mutant of pinoLevelToSeverity: the range bounds are inclusive (<= for <)
pinoLevelToSeverityInclusive(level) ==
  IF LessThan(level, 31) THEN "DEBUG"
  ELSE IF LessThan(level, 41) THEN "INFO"
  ELSE IF LessThan(level, 51) THEN "WARNING"
  ELSE IF LessThan(level, 61) THEN "ERROR"
  ELSE "CRITICAL"

pinoLevelToSeverity(level) ==
  IF LessThan(level, 30) THEN "DEBUG"
  ELSE IF LessThan(level, 40) THEN "INFO"
  ELSE IF LessThan(level, 50) THEN "WARNING"
  ELSE IF LessThan(level, 60) THEN "ERROR"
  ELSE "CRITICAL"

\* own enumerable properties of a parsed value, as destructuring sees them
Props(log) ==
  CASE log.t = "obj"    -> log.f
    [] log.t = "topstr" -> [k \in {"0", "1"} |-> Str(log.chars[IF k = "0" THEN 1 ELSE 2])]
    [] OTHER            -> EmptyMap

Get(props, k) == IF k \in DOMAIN props THEN props[k] ELSE Undefined

\* const { level, time, pid, hostname, msg, ...rest } = log
Rest(props) == [k \in (DOMAIN props) \ {"level", "time", "pid", "hostname", "msg"} |-> props[k]]

\* msg ?? ''
MsgOrEmpty(msg) == IF msg.t \in {"undefined", "null"} THEN Str("") ELSE msg

\* { severity: pinoLevelToSeverity(level), message: msg ?? '', ...rest }
mappedRecord(log) ==
  Spread(("severity" :> Str(pinoLevelToSeverity(Get(Props(log), "level"))))
           @@ ("message" :> MsgOrEmpty(Get(Props(log), "msg"))),
         Rest(Props(log)))

\* mutant of fallbackRecord: the fallback keeps the severity of an ordinary entry
fallbackRecordAsInfo(line) == ("severity" :> Str("INFO")) @@ ("message" :> Str(line.raw))

\* { severity: 'ERROR', message: logLine }
fallbackRecord(line) == ("severity" :> Str("ERROR")) @@ ("message" :> Str(line.raw))

\* mutant of DestructureThrows: null is destructured like any other value
DestructureNeverThrows(line) == FALSE

\* JSON.parse throws on text that is not JSON; destructuring null throws a TypeError
ParseThrows(line)       == line.json = <<>>
DestructureThrows(line) == ~ParseThrows(line) /\ line.json[1].t = "null"

\* the try block: the records it hands to firebaseLogger.write, and whether it threw
\* (o1: how firebaseLogger.write ends when the try block calls it)
tryBlock(line, o1) ==
  IF ParseThrows(line) \/ DestructureThrows(line)
    THEN [calls |-> <<>>, threw |-> TRUE]
    ELSE [calls |-> <<mappedRecord(line.json[1])>>, threw |-> (o1 = "throw")]

LogIdle ==
  /\ logLine = Line("", <<>>) /\ fwCalls = <<>> /\ fwOutcomes = <<>>
  /\ writeThrew = FALSE /\ wrote = FALSE

\* mutant of write: no catch block, what the try block throws leaves write
writeWithoutCatch(line, o1, o2) ==
  /\ logLine' = line
  /\ wrote' = TRUE
  /\ LET t == tryBlock(line, o1)
     IN /\ fwCalls' = t.calls
        /\ fwOutcomes' = [i \in 1..Len(t.calls) |-> o1]
        /\ writeThrew' = t.threw
  /\ UNCHANGED <<wrapVars, sevVars, sendVars, auxVars>>

\* firebaseDestination.write(logLine): try { parse, map, forward } catch { forward the
\* raw line }. o1, o2: how firebaseLogger.write ends in the try and in the catch block.
write(line, o1, o2) ==
  /\ logLine' = line
  /\ wrote' = TRUE
  /\ LET t == tryBlock(line, o1)
     IN IF t.threw
          THEN /\ fwCalls' = Append(t.calls, fallbackRecord(line))
               /\ fwOutcomes' = [i \in 1..Len(t.calls) |-> "throw"] \o <<o2>>
               /\ writeThrew' = (o2 = "throw")
          ELSE /\ fwCalls' = t.calls
               /\ fwOutcomes' = [i \in 1..Len(t.calls) |-> "return"]
               /\ writeThrew' = FALSE
  /\ UNCHANGED <<wrapVars, sevVars, sendVars, auxVars>>

NextLog == \E line \in Lines : \E o1, o2 \in {"return", "throw"} : write(line, o1, o2)

-----------------------------------------------------------------------------
(* pinoLevelToSeverity on pairs of integer levels                          *)

MaxLevel == 65

Levels == (-5 .. MaxLevel) \cup {1000}

Severities == <<"DEBUG", "INFO", "WARNING", "ERROR", "CRITICAL">>

Rank(sev) == CHOOSE i \in 1..Len(Severities) : Severities[i] = sev

SevIdle == lvA = 0 /\ lvB = 0 /\ sevA = "none" /\ sevB = "none"

InitSev == lvA \in Levels /\ lvB \in Levels /\ sevA = "none" /\ sevB = "none"

MapLevels ==
  /\ sevA = "none"
  /\ sevA' = pinoLevelToSeverity(Num(lvA))
  /\ sevB' = pinoLevelToSeverity(Num(lvB))
  /\ UNCHANGED <<lvA, lvB>>
  /\ UNCHANGED <<wrapVars, logVars, sendVars, auxVars>>

NextSev == MapLevels

-----------------------------------------------------------------------------
(* beforeSend hook of initSentry (init-sentry.ts)                          *)

MaxChain == 3

\* what the layer at each position of a chain calls itself (the tests' top, middle, root)
LayerNames == <<"top", "middle", "root", "layer4", "layer5">>

EmptyContext == [extra |-> EmptyMap, tags |-> EmptyMap, contexts |-> EmptyMap,
                 fingerprint |-> <<>>]

\* the capture context of the Context-Carrying Error at position i: every value it
\* carries names the layer, so an event shows which layer wrote a key
CaptureContext(i, hasExtra, tagKind, hasAux) ==
  [extra       |-> IF hasExtra THEN ("level" :> LayerNames[i]) ELSE EmptyMap,
   tags        |-> CASE tagKind = "none" -> EmptyMap
                     [] tagKind = "own"  -> (LayerNames[i] :> "true")
                     [] tagKind = "both" -> (LayerNames[i] :> "true") @@ ("shared" :> LayerNames[i]),
   contexts    |-> IF hasAux THEN ("custom" :> ("key" :> LayerNames[i])) ELSE EmptyMap,
   fingerprint |-> IF hasAux THEN << <<LayerNames[i]>> >> ELSE <<>>]

\* exceptions that can stand at position i: Context-Carrying Errors, a plain Error,
\* and (with no cause of its own) a value that is not an Error
ErrorsAt(i) ==
  {[kind |-> "ctx", captureContext |-> CaptureContext(i, x, t, a)] :
      x \in BOOLEAN, t \in {"none", "own", "both"}, a \in BOOLEAN}
    \cup {[kind |-> "plain", captureContext |-> EmptyContext]}

NonError == [kind |-> "value", captureContext |-> EmptyContext]

RECURSIVE ChainsOfLen(_)
ChainsOfLen(n) ==
  IF n = 0 THEN {<<>>}
  ELSE {Append(c, e) : c \in {d \in ChainsOfLen(n - 1) : \A j \in 1..Len(d) : d[j].kind # "value"},
                       e \in ErrorsAt(n) \cup {NonError}}

Chains == UNION {ChainsOfLen(n) : n \in 0..MaxChain}

StubEvent == EmptyContext

ExistingEvent ==
  [extra       |-> ("existing" :> "event") @@ ("level" :> "event"),
   tags        |-> ("existing" :> "event") @@ ("shared" :> "event"),
   contexts    |-> ("existing" :> ("data" :> "event"))
                     @@ ("custom" :> (("key" :> "event") @@ ("data" :> "event"))),
   fingerprint |-> << <<"event">> >>]

\* mutant of ErrorWithSentryCaptureContext_beforeSend: a fingerprint is appended to the
\* event's fingerprint
beforeSendConcatFingerprint(cc, ev) ==
  [extra       |-> Spread(ev.extra, cc.extra),
   tags        |-> Spread(ev.tags, cc.tags),
   contexts    |-> Spread(ev.contexts, cc.contexts),
   fingerprint |-> ev.fingerprint \o cc.fingerprint]

\* mutant of ErrorWithSentryCaptureContext_beforeSend: context blocks are merged
\* deeply, a colliding block keeps the event's keys the capture context does not set
beforeSendDeepMerge(cc, ev) ==
  [extra       |-> Spread(ev.extra, cc.extra),
   tags        |-> Spread(ev.tags, cc.tags),
   contexts    |-> [k \in (DOMAIN ev.contexts) \cup (DOMAIN cc.contexts) |->
                      IF k \in (DOMAIN ev.contexts) \cap (DOMAIN cc.contexts)
                        THEN Spread(ev.contexts[k], cc.contexts[k])
                        ELSE Spread(ev.contexts, cc.contexts)[k]],
   fingerprint |-> IF cc.fingerprint # <<>> THEN cc.fingerprint ELSE ev.fingerprint]

\* ErrorWithSentryCaptureContext.beforeSend(event): each of extra, tags, contexts is the
\* event's mapping overridden by the capture context's; a fingerprint replaces
ErrorWithSentryCaptureContext_beforeSend(cc, ev) ==
  [extra       |-> Spread(ev.extra, cc.extra),
   tags        |-> Spread(ev.tags, cc.tags),
   contexts    |-> Spread(ev.contexts, cc.contexts),
   fingerprint |-> IF cc.fingerprint # <<>> THEN cc.fingerprint ELSE ev.fingerprint]

\* mutant of isErrorWithSentryCaptureContext: every Error passes the instanceof test
isAnyError(exception) == exception.kind # "value"

\* exception instanceof ErrorWithSentryCaptureContext
isErrorWithSentryCaptureContext(exception) == exception.kind = "ctx"

\* mutant of hasCause: only the cause of the reported exception is followed
hasCauseOfReportedOnly(ch, pos) == pos < Len(ch) /\ pos < 2

\* mutant of hasCause: the walk never follows the cause
hasCauseNever(ch, pos) == FALSE

\* if (exception.cause)
hasCause(ch, pos) == pos < Len(ch)

\* mutant of applyLayer: the recursion applies the reported exception again instead
\* of the cause it was given
applyLayerOfReported(ch, pos, ev) ==
  ErrorWithSentryCaptureContext_beforeSend(ch[1].captureContext, ev)

\* exception.beforeSend(event)
applyLayer(ch, pos, ev) ==
  ErrorWithSentryCaptureContext_beforeSend(ch[pos].captureContext, ev)

SendIdle ==
  /\ chain = <<>> /\ event = StubEvent /\ event0 = StubEvent
  /\ sendPc = "idle" /\ walkPos = 0 /\ applied = <<>>

InitSend ==
  /\ chain \in Chains
  /\ event \in {StubEvent, ExistingEvent}
  /\ event0 = event
  /\ sendPc = "idle" /\ walkPos = 0 /\ applied = <<>>

\* the SDK calls beforeSend(event, hint): the hook enters
\* processErrorWithSentryCaptureContext(event, hint.originalException)
beforeSend ==
  /\ sendPc = "idle"
  /\ sendPc' = "walking"
  /\ walkPos' = 1
  /\ UNCHANGED <<chain, event, event0, applied>>
  /\ UNCHANGED <<wrapVars, logVars, sevVars, auxVars>>

\* one level of processErrorWithSentryCaptureContext on a Context-Carrying Error:
\* apply its capture context, then recurse into its cause when it has one
processErrorWithSentryCaptureContext ==
  /\ sendPc = "walking"
  /\ walkPos <= Len(chain)
  /\ isErrorWithSentryCaptureContext(chain[walkPos])
  /\ event' = applyLayer(chain, walkPos, event)
  /\ applied' = Append(applied, walkPos)
  /\ IF hasCause(chain, walkPos)
       THEN walkPos' = walkPos + 1 /\ UNCHANGED sendPc
       ELSE sendPc' = "returned" /\ UNCHANGED walkPos
  /\ UNCHANGED <<chain, event0>>
  /\ UNCHANGED <<wrapVars, logVars, sevVars, auxVars>>

\* mutant of walkEnds: a plain Error is stepped over and the walk goes on to its cause
walkStepsOverPlainError ==
  /\ sendPc = "walking"
  /\ IF walkPos <= Len(chain) THEN ~isErrorWithSentryCaptureContext(chain[walkPos]) ELSE TRUE
  /\ IF (IF walkPos < Len(chain) THEN chain[walkPos].kind = "plain" ELSE FALSE)
       THEN walkPos' = walkPos + 1 /\ UNCHANGED sendPc
       ELSE sendPc' = "returned" /\ UNCHANGED walkPos
  /\ UNCHANGED <<chain, event, event0, applied>>
  /\ UNCHANGED <<wrapVars, logVars, sevVars, auxVars>>

\* the exception looked at is absent or no Context-Carrying Error: nothing is applied
\* and the hook returns the event
walkEnds ==
  /\ sendPc = "walking"
  /\ IF walkPos <= Len(chain) THEN ~isErrorWithSentryCaptureContext(chain[walkPos]) ELSE TRUE
  /\ sendPc' = "returned"
  /\ UNCHANGED <<chain, event, event0, walkPos, applied>>
  /\ UNCHANGED <<wrapVars, logVars, sevVars, auxVars>>

NextSend == beforeSend \/ processErrorWithSentryCaptureContext \/ walkEnds

-----------------------------------------------------------------------------
(* handleNotAwaitedPromise (handle-not-awaited-promise.ts)                 *)

MaxNaps == 2

NoPromise == [kind |-> "undefined", val |-> "none"]

\* promise: Promise<T> | undefined, in the state it has when it is passed in
NapPromises == {NoPromise, Pending} \cup {Resolved(v) : v \in Values} \cup {Rejected(e) : e \in Errors}

\* hint?: "undefined" is an omitted hint
Hints == {"undefined", "hintA", "hintB"}

NapIdle ==
  /\ napPromise = NoPromise /\ napHint = "undefined" /\ napPc = "idle"
  /\ napHandler = "none" /\ napCaptureCalls = <<>> /\ napUnhandled = {} /\ napCalls = 0

InitNap ==
  /\ napPromise \in NapPromises /\ napHint \in Hints /\ napPc = "idle"
  /\ napHandler = "none" /\ napCaptureCalls = <<>> /\ napUnhandled = {} /\ napCalls = 0

\* the runtime's rejection tracking when the running code has finished: a rejected
\* promise nobody attached a handler to is reported
Untracked(p, handler) ==
  IF p.kind = "rejected" /\ handler = "none" THEN {p.val} ELSE {}

\* mutant of handleNotAwaitedPromise: the promise is waited for, and the capture is
\* made before the function returns
handleNotAwaitedPromiseAwaiting ==
  /\ napPc = "idle"
  /\ napPromise.kind # "pending"
  /\ napPc' = "returned"
  /\ napHandler' = IF napPromise.kind = "rejected" THEN "ran"
                   ELSE IF napPromise.kind = "resolved" THEN "skipped" ELSE "none"
  /\ napCaptureCalls' =
        IF napPromise.kind = "rejected"
          THEN Append(napCaptureCalls, [err |-> napPromise.val, hint |-> napHint, threw |-> FALSE])
          ELSE napCaptureCalls
  /\ UNCHANGED <<napPromise, napHint, napUnhandled, napCalls>>
  /\ UNCHANGED <<coreVars, markVars, facVars, extVars>>

\* handleNotAwaitedPromise(promise, hint): promise?.catch(callback) attaches the
\* callback unless promise is undefined, and the function returns
handleNotAwaitedPromise ==
  /\ napPc = "idle"
  /\ napPc' = "returned"
  /\ napHandler' = IF napPromise.kind = "undefined" THEN "none" ELSE "attached"
  /\ UNCHANGED <<napPromise, napHint, napCaptureCalls, napUnhandled, napCalls>>
  /\ UNCHANGED <<coreVars, markVars, facVars, extVars>>

\* the caller's synchronous code after the call runs to its end; only then can
\* promise reactions run
CallerContinues ==
  /\ napPc = "returned"
  /\ napPc' = "continued"
  /\ napUnhandled' = napUnhandled \cup Untracked(napPromise, napHandler)
  /\ UNCHANGED <<napPromise, napHint, napHandler, napCaptureCalls, napCalls>>
  /\ UNCHANGED <<coreVars, markVars, facVars, extVars>>

\* a pending promise settles later
PromiseSettles(r) ==
  /\ napPc = "continued"
  /\ napPromise = Pending
  /\ napPromise' = r
  /\ napUnhandled' = napUnhandled \cup Untracked(r, napHandler)
  /\ UNCHANGED <<napHint, napPc, napHandler, napCaptureCalls, napCalls>>
  /\ UNCHANGED <<coreVars, markVars, facVars, extVars>>

\* mutant of catchCallback: the hint is not handed to captureException
catchCallbackWithoutHint(capOut) ==
  /\ napPc = "continued"
  /\ napHandler = "attached"
  /\ napPromise.kind = "rejected"
  /\ napHandler' = "ran"
  /\ napCaptureCalls' = Append(napCaptureCalls,
        [err |-> napPromise.val, hint |-> "undefined", threw |-> (capOut = "throw")])
  /\ napUnhandled' = IF capOut = "throw" THEN napUnhandled \cup {"captureError"} ELSE napUnhandled
  /\ UNCHANGED <<napPromise, napHint, napPc, napCalls>>
  /\ UNCHANGED <<coreVars, markVars, facVars, extVars>>

\* the reaction to a rejection: (error) => { captureException(error, hint) }. capOut:
\* how captureException ends; when it throws, the promise returned by catch rejects
\* and nobody handles it
catchCallback(capOut) ==
  /\ napPc = "continued"
  /\ napHandler = "attached"
  /\ napPromise.kind = "rejected"
  /\ napHandler' = "ran"
  /\ napCaptureCalls' = Append(napCaptureCalls,
        [err |-> napPromise.val, hint |-> napHint, threw |-> (capOut = "throw")])
  /\ napUnhandled' = IF capOut = "throw" THEN napUnhandled \cup {"captureError"} ELSE napUnhandled
  /\ UNCHANGED <<napPromise, napHint, napPc, napCalls>>
  /\ UNCHANGED <<coreVars, markVars, facVars, extVars>>

\* the reaction to a resolution: catch passes the value through, the callback is not run
ResolutionIgnored ==
  /\ napPc = "continued"
  /\ napHandler = "attached"
  /\ napPromise.kind = "resolved"
  /\ napHandler' = "skipped"
  /\ UNCHANGED <<napPromise, napHint, napPc, napCaptureCalls, napUnhandled, napCalls>>
  /\ UNCHANGED <<coreVars, markVars, facVars, extVars>>

\* handleNotAwaitedPromise is called again, with another promise and hint
NextNap(p, h) ==
  /\ napPc = "continued"
  /\ napHandler # "attached" \/ napPromise = Pending
  /\ napCalls + 1 < MaxNaps
  /\ napCalls' = napCalls + 1
  /\ napPromise' = p /\ napHint' = h /\ napPc' = "idle"
  /\ napHandler' = "none" /\ napCaptureCalls' = <<>> /\ napUnhandled' = {}
  /\ UNCHANGED <<coreVars, markVars, facVars, extVars>>

NextNapSpec ==
  \/ handleNotAwaitedPromise
  \/ CallerContinues
  \/ \E r \in {Resolved(v) : v \in Values} \cup {Rejected(e) : e \in Errors} : PromiseSettles(r)
  \/ \E c \in {"return", "throw"} : catchCallback(c)
  \/ ResolutionIgnored
  \/ \E p \in NapPromises, h \in Hints : NextNap(p, h)

-----------------------------------------------------------------------------
(* markEventUnhandled applied to a scope, and the processors it adds       *)

MaxMarks == 2

ScopeIds == {"scopeA", "scopeB"}

\* scopes markEventUnhandled can be given: fresh, or already carrying a processor
MarkScopes ==
  {[NewScope(id) EXCEPT !.processors = ps] : id \in ScopeIds, ps \in {<<>>, <<"other">>}}

\* events the SDK processes: with or without an exception, whose mechanism may
\* already say handled: true or false ("unset": no mechanism yet)
NoEvent == [id |-> "none", exception |-> FALSE, handled |-> "unset"]

SentryEvents ==
  {[id |-> i, exception |-> TRUE, handled |-> h] :
      i \in {"evA", "evB"}, h \in {"unset", "true", "false"}}
    \cup {[id |-> i, exception |-> FALSE, handled |-> "unset"] : i \in {"evA", "evB"}}

\* addExceptionMechanism(event, { handled }): sets the mechanism of the event's first
\* exception, in place; an event without an exception is left as it is
addExceptionMechanism(ev, handled) ==
  IF ev.exception THEN [ev EXCEPT !.handled = IF handled THEN "true" ELSE "false"] ELSE ev

\* mutant of eventProcessor: the processor hands back a copy of the event
eventProcessorCopying(ev) == [addExceptionMechanism(ev, FALSE) EXCEPT !.id = "copy"]

\* (event) => { addExceptionMechanism(event, { handled: false }); return event }
eventProcessor(ev) == addExceptionMechanism(ev, FALSE)

\* the SDK runs the processors of a scope over an event, in the order they were added
RECURSIVE RunProcessors(_, _)
RunProcessors(ps, ev) ==
  IF ps = <<>> THEN ev
  ELSE RunProcessors(Tail(ps), IF Head(ps) = "handledFalse" THEN eventProcessor(ev) ELSE ev)

\* the addExceptionMechanism calls made while doing so
RECURSIVE MechanismCalls(_, _)
MechanismCalls(ps, ev) ==
  IF ps = <<>> THEN <<>>
  ELSE IF Head(ps) = "handledFalse"
         THEN <<[event |-> ev.id, handled |-> FALSE]>> \o MechanismCalls(Tail(ps), eventProcessor(ev))
         ELSE MechanismCalls(Tail(ps), ev)

MarkIdle ==
  /\ markScope = NoScope /\ markBefore = NoScope /\ markReturned = NoScope /\ markCount = 0
  /\ markEventIn = NoEvent /\ markEventOut = NoEvent /\ mechCalls = <<>>

InitMark ==
  /\ markScope \in MarkScopes /\ markBefore = NoScope /\ markReturned = NoScope
  /\ markCount = 0
  /\ markEventIn = NoEvent /\ markEventOut = NoEvent /\ mechCalls = <<>>

\* user code calls markEventUnhandled(scope)
MarkScope ==
  /\ markCount < MaxMarks
  /\ markBefore' = markScope
  /\ markScope' = markEventUnhandled(markScope)
  /\ markReturned' = markEventUnhandled(markScope)
  /\ markCount' = markCount + 1
  /\ UNCHANGED <<markEventIn, markEventOut, mechCalls>>
  /\ UNCHANGED <<coreVars, napVars, facVars, extVars>>

\* the SDK sends an event captured under the scope through the scope's processors
ProcessEvent(ev) ==
  /\ markEventIn' = ev
  /\ markEventOut' = RunProcessors(markScope.processors, ev)
  /\ mechCalls' = MechanismCalls(markScope.processors, ev)
  /\ UNCHANGED <<markScope, markBefore, markReturned, markCount>>
  /\ UNCHANGED <<coreVars, napVars, facVars, extVars>>

NextMark == MarkScope \/ \E ev \in SentryEvents : ProcessEvent(ev)

FacIdle ==
  /\ env = [emulator |-> "unset", nodeEnv |-> "unset", logLevel |-> "unset"]
  /\ facLoaded = FALSE /\ facMode = "none" /\ facMinLevel = -1
  /\ facEnv = [emulator |-> "unset", nodeEnv |-> "unset", logLevel |-> "unset"]
  /\ facCall = [method |-> "none", args |-> <<>>] /\ facOut = <<>>
  /\ pinoMode = "none" /\ pinoLevel = "none"
  /\ pinoEnv = [emulator |-> "unset", nodeEnv |-> "unset", logLevel |-> "unset"]

-----------------------------------------------------------------------------
(* Logger facade (logger/src/logger.ts) and createLogger (pino-logger)     *)

\* values of the three environment variables ("unset": the variable is not set)
EmulatorValues == {"unset", "true", "false"}
NodeEnvValues  == {"unset", "test", "development", "production"}
LogLevelValues == {"unset", "debug", "info", "warn", "error", "invalid"}

Envs == [emulator : EmulatorValues, nodeEnv : NodeEnvValues, logLevel : LogLevelValues]

Methods == {"debug", "log", "info", "warn", "error"}

\* argument lists of a facade call
ArgLists == {<<>>, <<Str("msg")>>, <<Str("msg"), Str("data")>>,
             <<Num(1), Str("msg"), Str("data")>>}

\* mutant of isLocalEnvironment: NODE_ENV=development is not a development signal
isLocalEnvironmentWithoutDevelopment(e) == e.emulator = "true" \/ e.nodeEnv = "test"

\* pino-logger: isLocalEnvironment()
isLocalEnvironment(e) ==
  e.emulator = "true" \/ e.nodeEnv = "test" \/ e.nodeEnv = "development"

\* facade: the condition of the conditional expression that defines `logger`
loggerIsDevelopment(e) ==
  e.emulator = "true" \/ e.nodeEnv = "test" \/ e.nodeEnv = "development"

\* mutant of getMinLevel: no default for an unset LOG_LEVEL
getMinLevelWithoutDefault(e) ==
  CASE e.logLevel = "debug" -> 2
    [] e.logLevel = "info"  -> 3
    [] e.logLevel = "warn"  -> 4
    [] e.logLevel = "error" -> 5
    [] OTHER                -> 0

\* getMinLevel(): process.env.LOG_LEVEL ?? 'debug', then the switch
getMinLevel(e) ==
  LET logLevel == IF e.logLevel = "unset" THEN "debug" ELSE e.logLevel
  IN CASE logLevel = "debug" -> 2
       [] logLevel = "info"  -> 3
       [] logLevel = "warn"  -> 4
       [] logLevel = "error" -> 5
       [] OTHER              -> 0

\* the i-th argument of a call, undefined when there is none
ArgAt(as, i) == IF i <= Len(as) THEN as[i] ELSE Undefined

\* the arguments from the i-th on
ArgsFrom(as, i) == IF i <= Len(as) THEN SubSeq(as, i, Len(as)) ELSE <<>>

\* mutant of TSLogger_log: a message at the minimum level is suppressed too
TSLogger_logExclusive(minLevel, logLevelId, logLevelName, as) ==
  IF LessThan(logLevelId, minLevel + 1) THEN <<>>
  ELSE <<[sink |-> "console", levelId |-> logLevelId, severity |-> logLevelName, args |-> as]>>

\* tslog's log(logLevelId, logLevelName, ...args): nothing when logLevelId < minLevel,
\* else one line on the console
TSLogger_log(minLevel, logLevelId, logLevelName, as) ==
  IF LessThan(logLevelId, minLevel) THEN <<>>
  ELSE <<[sink |-> "console", levelId |-> logLevelId, severity |-> logLevelName, args |-> as]>>

\* the methods of the TSLogger instance: debug, info, warn, error log at their level;
\* log is tslog's own log(logLevelId, logLevelName, ...args)
TSLogger(minLevel, method, as) ==
  CASE method = "debug" -> TSLogger_log(minLevel, Num(2), Str("DEBUG"), as)
    [] method = "info"  -> TSLogger_log(minLevel, Num(3), Str("INFO"), as)
    [] method = "warn"  -> TSLogger_log(minLevel, Num(4), Str("WARN"), as)
    [] method = "error" -> TSLogger_log(minLevel, Num(5), Str("ERROR"), as)
    [] method = "log"   -> TSLogger_log(minLevel, ArgAt(as, 1), ArgAt(as, 2), ArgsFrom(as, 3))

\* the methods of firebase-functions' logger: one entry at the method's severity, log
\* and info both at INFO
firebaseLogger(method, as) ==
  LET severity == CASE method = "debug" -> "DEBUG"
                    [] method = "log"   -> "INFO"
                    [] method = "info"  -> "INFO"
                    [] method = "warn"  -> "WARNING"
                    [] method = "error" -> "ERROR"
  IN <<[sink |-> "firebase", levelId |-> Undefined, severity |-> Str(severity), args |-> as]>>

\* logger[method](...args) on the facade
logger(mode, minLevel, method, as) ==
  IF mode = "development" THEN TSLogger(minLevel, method, as) ELSE firebaseLogger(method, as)

InitFac ==
  /\ env \in Envs
  /\ facLoaded = FALSE /\ facMode = "none" /\ facMinLevel = -1
  /\ facEnv = [emulator |-> "unset", nodeEnv |-> "unset", logLevel |-> "unset"]
  /\ facCall = [method |-> "none", args |-> <<>>] /\ facOut = <<>>
  /\ pinoMode = "none" /\ pinoLevel = "none"
  /\ pinoEnv = [emulator |-> "unset", nodeEnv |-> "unset", logLevel |-> "unset"]

\* the facade module is evaluated: `export const logger = <condition> ? new TSLogger({
\* minLevel: getMinLevel(), ... }) : firebaseLogger`
LoadFacade ==
  /\ ~facLoaded
  /\ facLoaded' = TRUE
  /\ facEnv' = env
  /\ facMode' = IF loggerIsDevelopment(env) THEN "development" ELSE "production"
  /\ facMinLevel' = IF loggerIsDevelopment(env) THEN getMinLevel(env) ELSE -1
  /\ UNCHANGED <<env, facCall, facOut, pinoMode, pinoLevel, pinoEnv>>
  /\ UNCHANGED <<coreVars, napVars, markVars, extVars>>

\* mutant of CallLogger: backend and minimum level are read from process.env at the call
CallLoggerReadingEnv(method, as) ==
  /\ facLoaded
  /\ facCall' = [method |-> method, args |-> as]
  /\ facOut' = logger(IF loggerIsDevelopment(env) THEN "development" ELSE "production",
                      getMinLevel(env), method, as)
  /\ UNCHANGED <<env, facLoaded, facMode, facMinLevel, facEnv, pinoMode, pinoLevel, pinoEnv>>
  /\ UNCHANGED <<coreVars, napVars, markVars, extVars>>

\* user code calls a method of the facade
CallLogger(method, as) ==
  /\ facLoaded
  /\ facCall' = [method |-> method, args |-> as]
  /\ facOut' = logger(facMode, facMinLevel, method, as)
  /\ UNCHANGED <<env, facLoaded, facMode, facMinLevel, facEnv, pinoMode, pinoLevel, pinoEnv>>
  /\ UNCHANGED <<coreVars, napVars, markVars, extVars>>

\* createLogger(level = process.env.LOG_LEVEL ?? 'debug'): the branch it takes and the
\* level it hands to pino
createLogger(level) ==
  /\ pinoEnv' = env
  /\ pinoMode' = IF isLocalEnvironment(env) THEN "development" ELSE "production"
  /\ pinoLevel' = IF level # "undefined" THEN level
                  ELSE IF env.logLevel = "unset" THEN "debug" ELSE env.logLevel
  /\ UNCHANGED <<env, facLoaded, facMode, facMinLevel, facEnv, facCall, facOut>>
  /\ UNCHANGED <<coreVars, napVars, markVars, extVars>>

\* what process.env is changed to once the facade module has been evaluated
EnvChanges ==
  {[emulator |-> "true", nodeEnv |-> "unset", logLevel |-> "debug"],
   [emulator |-> "unset", nodeEnv |-> "production", logLevel |-> "error"],
   [emulator |-> "unset", nodeEnv |-> "unset", logLevel |-> "unset"]}

\* process.env is changed after the facade module was evaluated (the tests do so
\* between module loads; any code of the process can)
SetEnv(e) ==
  /\ facLoaded
  /\ e # env
  /\ env' = e
  /\ UNCHANGED <<facLoaded, facMode, facMinLevel, facEnv, facCall, facOut, pinoMode, pinoLevel,
                 pinoEnv>>
  /\ UNCHANGED <<coreVars, napVars, markVars, extVars>>

NextFac ==
  \/ \E e \in EnvChanges : SetEnv(e)
  \/ LoadFacade
  \/ \E m \in Methods, as \in ArgLists : CallLogger(m, as)
  \/ \E level \in {"undefined", "warn"} : createLogger(level)

-----------------------------------------------------------------------------
(* initSentry (init-sentry.ts)                                             *)

\* the option keys a caller may pass, and the values tried for each; beforeSend is
\* excluded by the parameter type but a JavaScript caller can still pass it
OptionValues ==
  [dsn              |-> {"dsnA", "dsnB"},
   environment      |-> {"test"},
   tracesSampleRate |-> {"0.5"},
   integrations     |-> {"undefined", "callerIntegrations"},
   beforeSend       |-> {"callerBeforeSend"}]

OptionKeys == DOMAIN OptionValues

OptionObjects ==
  UNION {{o \in [ks -> UNION {OptionValues[k] : k \in ks}] :
            \A k \in ks : o[k] \in OptionValues[k]} : ks \in SUBSET OptionKeys}

\* initSentry() and initSentry(options)
InitArgs == {[given |-> FALSE, fields |-> EmptyMap]}
              \cup {[given |-> TRUE, fields |-> o] : o \in OptionObjects}

NoConfig == [k \in {"none"} |-> "none"]

firebaseIntegration == "FirebaseIntegration"

DefaultIntegrationLists == {<<>>, <<"Default1">>, <<"Default1", "Default2">>}

\* (defaultIntegrations) => [...defaultIntegrations, firebaseIntegration()]
libraryIntegrations(defaultIntegrations) == Append(defaultIntegrations, firebaseIntegration)

\* mutant of initOptions: the caller's options are spread last
initOptionsSpreadLast(options) ==
  Spread(Spread(("integrations" :> "libraryIntegrations"),
                ("beforeSend" :> "libraryBeforeSend")),
         options.fields)

\* the object literal given to init: { integrations, ...options, beforeSend }
\* (spreading undefined adds nothing)
initOptions(options) ==
  Spread(Spread(("integrations" :> "libraryIntegrations"), options.fields),
         ("beforeSend" :> "libraryBeforeSend"))

InitIdle ==
  /\ initArg = [given |-> FALSE, fields |-> EmptyMap]
  /\ initConfig = NoConfig /\ initPc = "idle" /\ initInstalled = <<>>


\* initSentry(options): one call of the SDK's init
initSentry(options) ==
  /\ initPc = "idle"
  /\ initArg' = options
  /\ initConfig' = initOptions(options)
  /\ initPc' = "configured"
  /\ UNCHANGED initInstalled
  /\ UNCHANGED <<coreVars, napVars, markVars, facVars, concVars>>

\* the SDK sets up its integrations from the configuration it was given: a function
\* is called with the default integrations, anything else leaves the defaults (or
\* the caller's own value) in place
SdkSetsUpIntegrations(defaultIntegrations) ==
  /\ initPc = "configured"
  /\ initInstalled' =
       IF "integrations" \notin DOMAIN initConfig THEN defaultIntegrations
       ELSE CASE initConfig["integrations"] = "libraryIntegrations" ->
                   libraryIntegrations(defaultIntegrations)
              [] initConfig["integrations"] = "callerIntegrations" ->
                   <<"CallerIntegration">>
              [] OTHER -> defaultIntegrations
  /\ initPc' = "resolved"
  /\ UNCHANGED <<initArg, initConfig>>
  /\ UNCHANGED <<coreVars, napVars, markVars, facVars, concVars>>

NextInit ==
  \/ \E o \in InitArgs : initSentry(o)
  \/ \E d \in DefaultIntegrationLists : SdkSetsUpIntegrations(d)

-----------------------------------------------------------------------------
(* Wrapped invocations in flight at the same time (sentry-wrapper.ts)      *)

\* the invocations the runtime has in flight
Invocations == {"invA", "invB"}

\* the wrapped handlers they are calls of (the same one, or two different ones)
ConcHandlers ==
  {[variant |-> "onUserChangeV1", name |-> "fnA"],
   [variant |-> "onPublishV1", name |-> "fnA"],
   [variant |-> "onSchedule", name |-> "fnB"]}

ConcArgs == {a \in Args : a.eventType = "typeX"}

Outcomes == {Resolved(v) : v \in Values} \cup {Rejected(e) : e \in Errors}

GlobalScopeId == "global"

IdleInvocation ==
  [pc |-> "idle", args |-> [eventType |-> "typeX", payload |-> "p1", readable |-> TRUE],
   span |-> <<>>, scope |-> NoScope, handlerCalls |-> <<>>, work |-> Pending,
   pending |-> Pending, logged |-> <<>>, captured |-> <<>>, flushes |-> <<>>,
   flushOut |-> "none", result |-> Pending]

ConcIdle ==
  /\ handlers = [i \in Invocations |-> [variant |-> "onSchedule", name |-> "fnB"]]
  /\ inv = [i \in Invocations |-> IdleInvocation]
  /\ globalScope = NewScope(GlobalScopeId)

ExtIdle == InitIdle /\ ConcIdle

InitConc ==
  /\ handlers \in [Invocations -> ConcHandlers]
  /\ inv = [i \in Invocations |-> IdleInvocation]
  /\ globalScope = NewScope(GlobalScopeId)

\* withScope hands its callback a fork of the current scope; a call from the runtime
\* starts outside every other invocation's asynchronous context, so the current scope
\* is the global one
withScopeFork(current, id) == [current EXCEPT !.id = id]

\* mutant of configuredScopes: configure writes to the current scope instead of the
\* scope it was given
configuredScopesOnCurrent(current, id, ops) ==
  [own |-> withScopeFork(ApplyOps(current, ops), id), global |-> ApplyOps(current, ops)]

\* withScope(async (scope) => { configure(scope); ... }): configure mutates the scope
\* it is given and nothing else
configuredScopes(current, id, ops) ==
  [own |-> ApplyOps(withScopeFork(current, id), ops), global |-> current]

\* the runtime calls a wrapped handler while others may be in flight: startSpan,
\* withScope, configure(scope), work() up to the handler's first suspension
ConcInvoke(i, a) ==
  /\ inv[i].pc = "idle"
  /\ a.readable \/ handlers[i].variant \in ThrowingConfigure
  /\ LET plan   == Plan(handlers[i], a)
         throws == ConfigureThrows(handlers[i], a)
         scopes == configuredScopes(globalScope, i, ConfigureOps(handlers[i], a))
     IN /\ inv' = [inv EXCEPT ![i] =
                     [@ EXCEPT !.args = a,
                               !.span = Append(@, plan.context),
                               !.scope = scopes.own,
                               !.pc = IF workReached(throws) THEN "running" ELSE "finally",
                               !.handlerCalls = IF workReached(throws)
                                                  THEN Append(@, handlerCall(a)) ELSE @,
                               !.pending = IF workReached(throws)
                                             THEN @ ELSE Rejected("configureError")]]
        /\ globalScope' = scopes.global
  /\ UNCHANGED handlers
  /\ UNCHANGED <<coreVars, napVars, markVars, facVars, initVars>>

\* the user handler of one invocation settles
ConcHandlerSettles(i, r) ==
  /\ inv[i].pc = "running"
  /\ inv' = [inv EXCEPT ![i] = [@ EXCEPT !.work = r, !.pc = "settled"]]
  /\ UNCHANGED <<handlers, globalScope>>
  /\ UNCHANGED <<coreVars, napVars, markVars, facVars, initVars>>

\* sentryCaptureUnhandledExceptionWrapper of one invocation after `await work()`:
\* captureException gives its callback a clone of the scope current in that
\* invocation's asynchronous context
ConcCatch(i) ==
  /\ inv[i].pc = "settled"
  /\ LET me    == inv[i]
         given == [me.scope EXCEPT !.id = CloneId]
     IN inv' = [inv EXCEPT ![i] =
                  IF me.work.kind = "resolved"
                    THEN [me EXCEPT !.pending = me.work, !.pc = "finally"]
                    ELSE [me EXCEPT
                            !.logged = IF notProduction(nodeEnv)
                                         THEN Append(@, me.work.val) ELSE @,
                            !.captured = Append(@, [err |-> me.work.val, given |-> given,
                                                    returned |-> captureCallback(given)]),
                            !.pending = me.work,
                            !.pc = "finally"]]
  /\ UNCHANGED <<handlers, globalScope>>
  /\ UNCHANGED <<coreVars, napVars, markVars, facVars, initVars>>

\* finally { await flush(5000) } of one invocation: the call
ConcFlush(i) ==
  /\ inv[i].pc = "finally"
  /\ inv' = [inv EXCEPT ![i] = [@ EXCEPT !.flushes = Append(@, FlushTimeout),
                                         !.pc = "flushing"]]
  /\ UNCHANGED <<handlers, globalScope>>
  /\ UNCHANGED <<coreVars, napVars, markVars, facVars, initVars>>

\* the awaited flush of one invocation settles and its wrapped call settles
ConcFlushSettles(i, out) ==
  /\ inv[i].pc = "flushing"
  /\ inv' = [inv EXCEPT ![i] =
               [@ EXCEPT !.result = IF out = "reject" THEN Rejected("flushError")
                                                      ELSE inv[i].pending,
                         !.flushOut = out,
                         !.pc = "done"]]
  /\ UNCHANGED <<handlers, globalScope>>
  /\ UNCHANGED <<coreVars, napVars, markVars, facVars, initVars>>

NextConc ==
  \E i \in Invocations :
    \/ \E a \in ConcArgs : ConcInvoke(i, a)
    \/ \E r \in Outcomes : ConcHandlerSettles(i, r)
    \/ ConcCatch(i)
    \/ ConcFlush(i)
    \/ \E out \in {"true", "reject"} : ConcFlushSettles(i, out)

AuxIdle == NapIdle /\ MarkIdle /\ FacIdle /\ ExtIdle

-----------------------------------------------------------------------------
(* Specifications                                                          *)

WrapFixed ==
  /\ nodeEnv = "production"
  /\ wrapped = [variant |-> "onSchedule", name |-> "fnA"]
  /\ calls = 0
  /\ WrapIdle

\* calls of a wrapped handler
Init == InitWrap /\ LogIdle /\ SevIdle /\ SendIdle /\ AuxIdle
Next == NextWrap
Spec == Init /\ [][Next]_vars

\* writes to the forwarding destination
InitLogSpec == WrapFixed /\ LogIdle /\ SevIdle /\ SendIdle /\ AuxIdle
SpecLog == InitLogSpec /\ [][NextLog]_vars

\* pinoLevelToSeverity on two levels
InitSevSpec == WrapFixed /\ LogIdle /\ InitSev /\ SendIdle /\ AuxIdle
SpecSev == InitSevSpec /\ [][NextSev]_vars

\* one outgoing report through the beforeSend hook
InitSendSpec == WrapFixed /\ LogIdle /\ SevIdle /\ InitSend /\ AuxIdle
SpecSend == InitSendSpec /\ [][NextSend]_vars

\* the same, with the hook running to completion once the SDK has called it (the
\* walk is synchronous code)
SpecSendLive == InitSendSpec /\ [][NextSend]_vars /\ WF_vars(NextSend)

CoreIdle == WrapFixed /\ LogIdle /\ SevIdle /\ SendIdle

\* calls of handleNotAwaitedPromise
InitNapSpec == CoreIdle /\ InitNap /\ MarkIdle /\ FacIdle /\ ExtIdle
SpecNap == InitNapSpec /\ [][NextNapSpec]_vars

\* markEventUnhandled on a scope and events processed under it
InitMarkSpec == CoreIdle /\ NapIdle /\ InitMark /\ FacIdle /\ ExtIdle
SpecMark == InitMarkSpec /\ [][NextMark]_vars

\* the facade module, calls of its methods, and createLogger
InitFacSpec == CoreIdle /\ NapIdle /\ MarkIdle /\ InitFac /\ ExtIdle
SpecFac == InitFacSpec /\ [][NextFac]_vars

\* calls of initSentry
InitInitSpec == CoreIdle /\ NapIdle /\ MarkIdle /\ FacIdle /\ InitIdle /\ ConcIdle
SpecInit == InitInitSpec /\ [][NextInit]_vars

\* two wrapped invocations in flight at the same time
InitConcSpec ==
  /\ nodeEnv \in {"production", "development"}
  /\ wrapped = [variant |-> "onSchedule", name |-> "fnA"] /\ calls = 0 /\ WrapIdle
  /\ LogIdle /\ SevIdle /\ SendIdle /\ NapIdle /\ MarkIdle /\ FacIdle /\ InitIdle
  /\ InitConc
SpecConc == InitConcSpec /\ [][NextConc]_vars

-----------------------------------------------------------------------------
(* Claims about the wrapper layer (checked under Spec)                     *)

Done == pc = "done"

HandlerRejected == workResult.kind = "rejected"

HandlerResolved == workResult.kind = "resolved"

LoggerThrew  == \E i \in 1..Len(loggerCalls) : loggerCalls[i].threw
CaptureThrew == \E i \in 1..Len(captureCalls) : captureCalls[i].threw
FlushRejected == flushOut = "reject"

\* logger.error, captureException and flush all completed normally
ReportingNormal == ~LoggerThrew /\ ~CaptureThrew /\ ~FlushRejected

Positions(name) == {i \in 1..Len(trace) : trace[i].ev = name}

\* the capture call handed its callback a scope, and got back that same scope with
\* exactly one more event processor, the one that sets handled: false
CallbackMarksUnhandled(call) ==
  /\ call.returned.id = call.given.id
  /\ call.returned = [call.given EXCEPT !.processors = Append(@, "handledFalse")]

\* C1 as stated: for every wrapper variant and for sentryConfigurationWrapper, a
\* handler that rejects with e (logging, captureException and flush completing
\* normally) makes the wrapped call reject with e, with exactly one captureException
\* call (e, marking callback), and flush called.
C1_AsClaimed ==
  (Done /\ HandlerRejected /\ ReportingNormal) =>
     /\ result = Rejected(workResult.val)
     /\ Len(captureCalls) = 1
     /\ captureCalls[1].err = workResult.val
     /\ CallbackMarksUnhandled(captureCalls[1])
     /\ Len(flushCalls) >= 1

\* C1 amended: the above holds for every trigger wrapper variant; when
\* sentryConfigurationWrapper is called directly, the call rejects with the identical
\* e and flush is called, but captureException is not called.
C1_RejectionReported ==
  (Done /\ HandlerRejected /\ ReportingNormal) =>
     /\ result = Rejected(workResult.val)
     /\ Len(flushCalls) >= 1
     /\ IF wrapped.variant \in TriggerVariants
          THEN /\ Len(captureCalls) = 1
               /\ captureCalls[1].err = workResult.val
               /\ CallbackMarksUnhandled(captureCalls[1])
          ELSE captureCalls = <<>>

C1_Witness ==
  /\ Done /\ HandlerRejected /\ ReportingNormal
  /\ wrapped.variant \in TriggerVariants
  /\ Len(captureCalls) = 1
  /\ result = Rejected(workResult.val)

ScopeMutations == {"setTag", "setContext", "setUser", "addEventProcessor"}

\* positions of the mutations of the invocation scope
OwnMutations == {i \in 1..Len(trace) : trace[i].ev \in ScopeMutations /\ trace[i].on = ScopeId}

C4_AsClaimed == (Done /\ HandlerRejected) => result = Rejected(workResult.val)

\* C4 amended: the caller observes e when logger.error (if called), captureException
\* (if called) and flush complete normally; otherwise it observes the error of the
\* step that failed: a rejection of flush first, else what logger.error threw, else
\* what captureException threw.
C4_RejectionObserved ==
  (Done /\ HandlerRejected) =>
     result = IF FlushRejected THEN Rejected("flushError")
              ELSE IF LoggerThrew THEN Rejected("loggerError")
              ELSE IF CaptureThrew THEN Rejected("captureError")
              ELSE Rejected(workResult.val)

C4_Witness ==
  /\ Done /\ HandlerRejected /\ workResult.val = "e2"
  /\ loggerCalls # <<>> /\ captureCalls # <<>> /\ ReportingNormal
  /\ result = Rejected("e2")

-----------------------------------------------------------------------------
(* Claims about the forwarding destination (checked under SpecLog)         *)

AllReturned == \A i \in 1..Len(fwOutcomes) : fwOutcomes[i] = "return"

\* C5 as stated: write never throws and calls firebaseLogger.write exactly once, for
\* every input line and every behaviour of firebaseLogger.write.
C5_AsClaimed == wrote => (~writeThrew /\ Len(fwCalls) = 1)

\* C5 amended: for every input line, when firebaseLogger.write returns normally, write
\* does not throw and calls it exactly once; when firebaseLogger.write throws on the
\* mapped record, the catch block calls it a second time with the fallback record;
\* write throws exactly when the call made in the catch block throws.
C5_OneRecordUnlessWriteThrows ==
  wrote =>
     /\ Len(fwCalls) \in {1, 2}
     /\ AllReturned => (~writeThrew /\ Len(fwCalls) = 1)
     /\ Len(fwCalls) = 2 =>
          /\ fwOutcomes[1] = "throw"
          /\ fwCalls[2] = ("severity" :> Str("ERROR")) @@ ("message" :> Str(logLine.raw))
     /\ writeThrew <=> (fwOutcomes[Len(fwOutcomes)] = "throw")
     /\ writeThrew => (ParseThrows(logLine) \/ DestructureThrows(logLine) \/ Len(fwCalls) = 2)

C5_Witness ==
  /\ wrote /\ logLine.raw = "plain text" /\ ParseThrows(logLine)
  /\ Len(fwCalls) = 1 /\ ~writeThrew

\* the line parsed to a pino entry and the mapped record was forwarded
ForwardedEntry == wrote /\ ~ParseThrows(logLine) /\ logLine.json[1].t = "obj"

EntryField(k) == Get(logLine.json[1].f, k)

\* C6 as stated: for every line that parses to a pino entry, the forwarded record has
\* severity = pinoLevelToSeverity(entry.level) and message = entry.msg (or the empty
\* string), whatever other fields the entry carries, including fields whose key is
\* 'severity' or 'message'.
C6_AsClaimed ==
  ForwardedEntry =>
     /\ fwCalls[1]["severity"] = Str(pinoLevelToSeverity(EntryField("level")))
     /\ fwCalls[1]["message"] = MsgOrEmpty(EntryField("msg"))

-----------------------------------------------------------------------------
(* Claim about pinoLevelToSeverity (checked under SpecSev)                 *)

Mapped == sevA # "none"

\* C7: pinoLevelToSeverity maps by half-open ranges: level < 30 DEBUG, 30..39 INFO,
\* 40..49 WARNING, 50..59 ERROR, level >= 60 CRITICAL (29, 30, 39, 40, 49, 50, 59, 60
\* and 1000 included), and is monotonic in the order DEBUG < INFO < WARNING < ERROR <
\* CRITICAL.
C7_SeverityRanges ==
  Mapped =>
     /\ lvA <= 29 => sevA = "DEBUG"
     /\ (30 <= lvA /\ lvA <= 39) => sevA = "INFO"
     /\ (40 <= lvA /\ lvA <= 49) => sevA = "WARNING"
     /\ (50 <= lvA /\ lvA <= 59) => sevA = "ERROR"
     /\ lvA >= 60 => sevA = "CRITICAL"
     /\ sevA \in {"DEBUG", "INFO", "WARNING", "ERROR", "CRITICAL"}
     /\ lvA <= lvB => Rank(sevA) <= Rank(sevB)

C7_Witness ==
  /\ Mapped /\ lvA = 39 /\ sevA = "INFO" /\ lvB = 1000 /\ sevB = "CRITICAL"

-----------------------------------------------------------------------------
(* Claims about the beforeSend hook (checked under SpecSend)               *)

Returned == sendPc = "returned"

AllContextCarrying == \A i \in 1..Len(chain) : isErrorWithSentryCaptureContext(chain[i])

Max(S) == CHOOSE x \in S : \A y \in S : y <= x
Min(S) == CHOOSE x \in S : \A y \in S : x <= y

AppliedLayers == {applied[i] : i \in 1..Len(applied)}

\* the layers among S whose capture context defines key k of field f
ExtraDefiners(S, k) == {i \in S : k \in DOMAIN chain[i].captureContext.extra}
TagDefiners(S, k)   == {i \in S : k \in DOMAIN chain[i].captureContext.tags}

ExtraKeys(S) == UNION {DOMAIN chain[i].captureContext.extra : i \in S}
TagKeys(S)   == UNION {DOMAIN chain[i].captureContext.tags : i \in S}

C11_NonContextErrorUntouched ==
  (Returned /\ (chain = <<>> \/ chain[1].kind # "ctx")) =>
     /\ event = event0
     /\ applied = <<>>

C11_Witness ==
  /\ Returned /\ Len(chain) >= 2
  /\ chain[1].kind = "plain" /\ chain[2].kind = "ctx"
  /\ chain[2].captureContext.extra # EmptyMap /\ chain[2].captureContext.fingerprint # <<>>
  /\ event0 = ExistingEvent /\ event = event0

\* m is mapping old overridden by mapping over: keys only in old are kept, keys only
\* in over are added, a key in both holds the whole value of over
Overridden(m, old, over) ==
  /\ DOMAIN m = (DOMAIN old) \cup (DOMAIN over)
  /\ \A k \in DOMAIN m : m[k] = IF k \in DOMAIN over THEN over[k] ELSE old[k]

\* C12: every application of ErrorWithSentryCaptureContext.beforeSend makes each of
\* the event's extra, tags and contexts the previous mapping overridden by the capture
\* context's (keys only in the event kept, keys only in the context added, a colliding
\* contexts block replaced as a whole), and a field the capture context does not
\* carry leaves the event's field unchanged.
C12_ShallowOverride ==
  [][applied' # applied =>
       LET cc == chain[walkPos].captureContext
       IN /\ Overridden(event'.extra, event.extra, cc.extra)
          /\ Overridden(event'.tags, event.tags, cc.tags)
          /\ Overridden(event'.contexts, event.contexts, cc.contexts)
          /\ cc.extra = EmptyMap => event'.extra = event.extra
          /\ cc.tags = EmptyMap => event'.tags = event.tags
          /\ cc.contexts = EmptyMap => event'.contexts = event.contexts
          /\ cc = EmptyContext => event' = event]_vars

C12_Witness ==
  /\ Returned /\ Len(chain) = 1 /\ applied = <<1>>
  /\ event0 = ExistingEvent
  /\ event.contexts["custom"] = ("key" :> "top")
  /\ event.contexts["existing"] = ("data" :> "event")
  /\ event.tags = ("existing" :> "event") @@ ("shared" :> "top") @@ ("top" :> "true")
  /\ event.extra = ("existing" :> "event") @@ ("level" :> "top")

\* the Context-Carrying layers of the chain: the reported exception and its causes, up
\* to the first exception that is not a Context-Carrying Error
ContextLayers == {i \in 1..Len(chain) : \A j \in 1..i : chain[j].kind = "ctx"}

\* the Context-Carrying layers whose capture context carries a fingerprint
FingerprintDefiners == {i \in ContextLayers : chain[i].captureContext.fingerprint # <<>>}

\* C13: a fingerprint of a capture context replaces the event's fingerprint (no
\* concatenation); after the whole walk the event's fingerprint is that of the
\* innermost Context-Carrying layer that defines one (the outermost layer's survives
\* only if no inner layer supplies one), and it is unchanged when no layer defines one.
C13_FingerprintReplaced ==
  Returned =>
     event.fingerprint =
        IF FingerprintDefiners = {} THEN event0.fingerprint
        ELSE chain[Max(FingerprintDefiners)].captureContext.fingerprint

C13_Witness ==
  /\ Returned /\ applied = <<1, 2, 3>>
  /\ FingerprintDefiners = {1, 3}
  /\ event0.fingerprint = << <<"event">> >>
  /\ event.fingerprint = << <<"root">> >>

-----------------------------------------------------------------------------
(* Claims about handleNotAwaitedPromise (checked under SpecNap)            *)

NapCalled == napPc # "idle"

\* C14: handleNotAwaitedPromise(undefined, hint) does nothing and does not throw; for a
\* promise that resolves (or stays pending) captureException is never called; for a
\* promise that rejects with e captureException is called exactly once, with exactly
\* (e, hint), hint undefined when omitted, and the rejection with e is not reported as
\* an unhandled rejection.
C14_CaptureOnRejectionOnly ==
  /\ napPc \in {"idle", "returned", "continued"}
  /\ (NapCalled /\ napPromise.kind = "undefined") =>
        napHandler = "none" /\ napCaptureCalls = <<>> /\ napUnhandled = {}
  /\ napPromise.kind \in {"pending", "resolved"} =>
        napCaptureCalls = <<>> /\ napUnhandled = {}
  /\ napPromise.kind = "rejected" =>
        /\ Len(napCaptureCalls) <= 1
        /\ Len(napCaptureCalls) = 1 <=> napHandler = "ran"
        /\ \A i \in 1..Len(napCaptureCalls) :
              napCaptureCalls[i].err = napPromise.val /\ napCaptureCalls[i].hint = napHint
        /\ napPromise.val \notin napUnhandled
        /\ (NapCalled /\ napPc = "continued") => napHandler \in {"attached", "ran"}

C14_Witness ==
  /\ napPromise = Rejected("e2") /\ napHint = "hintB" /\ napHandler = "ran"
  /\ napCaptureCalls = <<[err |-> "e2", hint |-> "hintB", threw |-> FALSE]>>
  /\ napUnhandled = {}

\* C15: handleNotAwaitedPromise does not block its caller: the call returns whatever
\* the state of the promise, no captureException call has been made when it returns,
\* even for a promise that is already rejected, and the caller's code after the call
\* runs on without the promise settling; the capture is made in a later step.
C15_ReturnsBeforeCapture ==
  /\ napPc = "idle" => ENABLED handleNotAwaitedPromise
  /\ napPc = "returned" => (napCaptureCalls = <<>> /\ ENABLED CallerContinues)
  /\ napCaptureCalls # <<>> => napPc = "continued"

C15_Witness ==
  /\ napPc = "returned" /\ napPromise = Rejected("e1") /\ napHandler = "attached"
  /\ napCaptureCalls = <<>>


-----------------------------------------------------------------------------
(* Claim about markEventUnhandled (checked under SpecMark)                 *)

\* the processors markEventUnhandled has added to a scope
MarkingProcessors(s) == {i \in 1..Len(s.processors) : s.processors[i] = "handledFalse"}

\* C16: markEventUnhandled(scope) returns the scope instance it was given, after adding
\* exactly one event processor to it; for every event it processes that processor
\* calls addExceptionMechanism(event, { handled: false }), which leaves the exception
\* mechanism of the event at handled: false, and returns the same event instance.
C16_SameScopeOneProcessor ==
  /\ [](markCount > 0 =>
          /\ markReturned = markScope
          /\ markReturned.id = markBefore.id
          /\ markReturned = [markBefore EXCEPT !.processors = Append(@, "handledFalse")]
          /\ Cardinality(MarkingProcessors(markScope)) = markCount)
  /\ [][<<markEventIn, markEventOut, mechCalls>>' # <<markEventIn, markEventOut, mechCalls>> =>
          /\ markEventOut'.id = markEventIn'.id
          /\ markEventOut'.exception = markEventIn'.exception
          /\ Len(mechCalls') = Cardinality(MarkingProcessors(markScope))
          /\ \A i \in 1..Len(mechCalls') :
                mechCalls'[i] = [event |-> markEventIn'.id, handled |-> FALSE]
          /\ (markEventIn'.exception /\ mechCalls' # <<>>) => markEventOut'.handled = "false"
          /\ mechCalls' = <<>> => markEventOut' = markEventIn']_vars

C16_Witness ==
  /\ markCount = 2 /\ markScope.processors = <<"other", "handledFalse", "handledFalse">>
  /\ markReturned = markScope
  /\ markEventIn = [id |-> "evB", exception |-> TRUE, handled |-> "true"]
  /\ markEventOut = [id |-> "evB", exception |-> TRUE, handled |-> "false"]
  /\ Len(mechCalls) = 2

-----------------------------------------------------------------------------
(* Claims about the logger facade and createLogger (checked under SpecFac) *)

\* a development signal is present in environment e
DevelopmentSignal(e) ==
  e.emulator = "true" \/ e.nodeEnv = "test" \/ e.nodeEnv = "development"

PinoCreated == pinoMode # "none"

\* C17: development mode is selected exactly when FUNCTIONS_EMULATOR is 'true' or
\* NODE_ENV is 'test' or NODE_ENV is 'development', whatever the other values are,
\* production mode otherwise, and the facade and createLogger decide alike for every
\* combination of environment values.
C17_ModeSelection ==
  /\ facLoaded =>
        /\ facMode \in {"development", "production"}
        /\ facMode = "development" <=> DevelopmentSignal(facEnv)
        /\ facEnv.emulator = "true" => facMode = "development"
        /\ facEnv.nodeEnv \in {"test", "development"} => facMode = "development"
  /\ PinoCreated =>
        /\ pinoMode \in {"development", "production"}
        /\ pinoMode = "development" <=> DevelopmentSignal(pinoEnv)
  /\ (facLoaded /\ PinoCreated /\ facEnv = pinoEnv) => facMode = pinoMode

C17_Witness ==
  /\ facLoaded /\ PinoCreated
  /\ env = [emulator |-> "false", nodeEnv |-> "development", logLevel |-> "error"]
  /\ facMode = "development" /\ pinoMode = "development"

LeveledMethods == {"debug", "info", "warn", "error"}

\* the severity of a facade method
MethodSeverity(m) ==
  CASE m = "debug" -> 2 [] m = "info" -> 3 [] m = "warn" -> 4 [] m = "error" -> 5

\* the minimum severity a LOG_LEVEL in {debug, info, warn, error} stands for
LevelSeverity(l) ==
  CASE l = "debug" -> 2 [] l = "info" -> 3 [] l = "warn" -> 4 [] l = "error" -> 5

\* C18: in development mode, for each LOG_LEVEL in {debug, info, warn, error}, a call
\* of debug, info, warn or error is emitted to the console if and only if its severity
\* is at or above the configured minimum; calls strictly below it produce no output.
C18_LevelFilter ==
  (facMode = "development" /\ facCall.method \in LeveledMethods
      /\ facEnv.logLevel \in {"debug", "info", "warn", "error"}) =>
     /\ facOut # <<>> <=> MethodSeverity(facCall.method) >= LevelSeverity(facEnv.logLevel)
     /\ Len(facOut) <= 1
     /\ \A i \in 1..Len(facOut) :
           /\ facOut[i].sink = "console"
           /\ facOut[i].levelId = Num(MethodSeverity(facCall.method))
           /\ facOut[i].args = facCall.args

C18_Witness ==
  /\ facMode = "development" /\ facEnv.logLevel = "warn"
  /\ facCall = [method |-> "warn", args |-> <<Str("msg")>>]
  /\ Len(facOut) = 1

\* C19 as stated: the minimum severity derived from LOG_LEVEL is 2 for 'debug', 3 for
\* 'info', 4 for 'warn', 5 for 'error', and 0 for any other value, including when
\* LOG_LEVEL is unset.
C19_AsClaimed ==
  facMode = "development" =>
     facMinLevel = CASE facEnv.logLevel = "debug" -> 2
                     [] facEnv.logLevel = "info"  -> 3
                     [] facEnv.logLevel = "warn"  -> 4
                     [] facEnv.logLevel = "error" -> 5
                     [] OTHER                     -> 0

\* C19 amended: the minimum severity is 2 for 'debug' and for an unset LOG_LEVEL (which
\* defaults to 'debug'), 3 for 'info', 4 for 'warn', 5 for 'error', and 0 for any
\* other value; under an unrecognized LOG_LEVEL every call of debug, info, warn and
\* error is emitted, as with no minimum.
C19_MinLevel ==
  facMode = "development" =>
     /\ facMinLevel = CASE facEnv.logLevel \in {"debug", "unset"} -> 2
                        [] facEnv.logLevel = "info"  -> 3
                        [] facEnv.logLevel = "warn"  -> 4
                        [] facEnv.logLevel = "error" -> 5
                        [] OTHER                     -> 0
     /\ (facEnv.logLevel = "invalid" /\ facCall.method \in LeveledMethods) => Len(facOut) = 1

C19_Witness ==
  /\ facMode = "development" /\ facEnv.logLevel = "unset" /\ facMinLevel = 2
  /\ facCall.method = "debug" /\ Len(facOut) = 1

\* C20 as stated: log is an alias of info in both modes: for every argument list and
\* every LOG_LEVEL, log(...args) is emitted exactly when info(...args) would be, at
\* the same severity and with the same arguments as message content.
C20_AsClaimed ==
  facCall.method = "log" => facOut = logger(facMode, facMinLevel, "info", facCall.args)

\* log is an alias of info where the facade is firebase-functions' logger
C20_AliasInProduction ==
  (facCall.method = "log" /\ facMode = "production") =>
     facOut = logger(facMode, facMinLevel, "info", facCall.args)

C20_Witness ==
  /\ facMode = "production" /\ facCall = [method |-> "log", args |-> <<Str("msg"), Str("data")>>]
  /\ facOut = <<[sink |-> "firebase", levelId |-> Undefined, severity |-> Str("INFO"),
                 args |-> <<Str("msg"), Str("data")>>]>>

-----------------------------------------------------------------------------
(* C21: the configuration initSentry hands to init                         *)

CallerFields == initArg.fields

Front(s) == SubSeq(s, 1, Len(s) - 1)

\* whatever the SDK set up from the library's integrations function is a default
\* integration list followed by the Firebase integration
LibraryIntegrationsInstalled ==
  (initPc = "resolved" /\ initConfig["integrations"] = "libraryIntegrations") =>
     /\ initInstalled # <<>>
     /\ initInstalled[Len(initInstalled)] = firebaseIntegration
     /\ Front(initInstalled) \in DefaultIntegrationLists
     /\ \A d \in DefaultIntegrationLists :
          libraryIntegrations(d) = d \o <<firebaseIntegration>>

\* C21 as stated: for every options object the configuration has the library's
\* integrations function, the library's beforeSend, and every other caller option
C21_AsClaimed ==
  initPc # "idle" =>
     /\ initConfig["integrations"] = "libraryIntegrations"
     /\ initConfig["beforeSend"] = "libraryBeforeSend"
     /\ \A k \in DOMAIN CallerFields \ {"integrations", "beforeSend"} :
          k \in DOMAIN initConfig /\ initConfig[k] = CallerFields[k]

\* C21: the configuration given to init always has the library's beforeSend hook and
\* carries every caller option other than beforeSend unchanged, integrations
\* included: the library's integrations function (default integrations followed by
\* the Firebase integration) is there exactly when the caller passed no integrations
\* option of their own, and the configuration has no other key.
C21_InitConfig ==
  initPc # "idle" =>
     /\ DOMAIN initConfig = DOMAIN CallerFields \cup {"integrations", "beforeSend"}
     /\ initConfig["beforeSend"] = "libraryBeforeSend"
     /\ \A k \in DOMAIN CallerFields \ {"beforeSend"} : initConfig[k] = CallerFields[k]
     /\ ("integrations" \notin DOMAIN CallerFields
           => initConfig["integrations"] = "libraryIntegrations")
     /\ LibraryIntegrationsInstalled

\* initSentry was called with a dsn, a beforeSend of the caller's and no integrations,
\* and the SDK set up two default integrations followed by the Firebase one
C21_Witness ==
  /\ initPc = "resolved"
  /\ initArg.given
  /\ DOMAIN CallerFields = {"dsn", "beforeSend"}
  /\ initConfig["dsn"] = "dsnA"
  /\ initInstalled = <<"Default1", "Default2", firebaseIntegration>>

-----------------------------------------------------------------------------
(* C22: function tags on the invocation's scope                            *)

HandlerStarted == \E i \in 1..Len(trace) : trace[i].ev = "handlerStart"

\* C22: in every trigger wrapper variant, from the moment the user handler starts
\* running the invocation's scope carries tag function.name = options.name and tag
\* function.version = 'v1' for the four legacy variants, 'v2' for the four
\* current-generation variants.
C22_FunctionTags ==
  (HandlerStarted /\ wrapped.variant \in TriggerVariants) =>
     /\ scope.id = ScopeId
     /\ "function.name" \in DOMAIN scope.tags
     /\ scope.tags["function.name"] = wrapped.name
     /\ "function.version" \in DOMAIN scope.tags
     /\ scope.tags["function.version"] =
          (IF wrapped.variant \in V1Variants THEN "v1" ELSE "v2")

\* a legacy scheduled handler registered as fnB has just been started
C22_Witness ==
  /\ pc = "running" /\ wrapped = [variant |-> "onScheduleRunV1", name |-> "fnB"]
  /\ trace[Len(trace)].ev = "handlerStart"
  /\ scope.tags = ("function.version" :> "v1") @@ ("function.name" :> "fnB")

-----------------------------------------------------------------------------
(* C23: the span of an invocation                                          *)

Invoked == pc # "idle"

\* C23 as stated: one span named options.name whose op is fixed by the variant: the
\* op is the one the same wrapped handler uses on any other event or context.
C23_AsClaimed ==
  (Invoked /\ wrapped.variant \in TriggerVariants) =>
     /\ Len(span) = 1
     /\ span[1].name = wrapped.name
     /\ \A a \in Args : Plan(wrapped, a).context.op = span[1].op

\* C23: each wrapped invocation starts exactly one span whose name is options.name.
\* Its op is the literal 'on-schedule' for sentryWrapOnSchedule and
\* 'on-task-dispatched' for sentryWrapOnTaskDispatched; for the four legacy variants
\* and for document change and message published it is the event type read from the
\* invocation's own context / event, so two invocations of one variant have the same
\* op only when the runtime gives them the same event type.
C23_SpanOp ==
  (Invoked /\ wrapped.variant \in TriggerVariants) =>
     /\ Len(span) = 1
     /\ span[1].name = wrapped.name
     /\ span[1].op = CASE wrapped.variant = "onSchedule"       -> "on-schedule"
                       [] wrapped.variant = "onTaskDispatched" -> "on-task-dispatched"
                       [] OTHER                                -> args.eventType

\* a scheduled invocation with event type typeY has its span named fnA with op
\* 'on-schedule', and the call has settled
C23_Witness ==
  /\ pc = "done" /\ wrapped = [variant |-> "onSchedule", name |-> "fnA"]
  /\ args.eventType = "typeY"
  /\ span = <<[name |-> "fnA", op |-> "on-schedule"]>>

-----------------------------------------------------------------------------
(* C24: local logging of a handler's rejection                             *)

EventIndex(t, name) == {i \in 1..Len(t) : t[i].ev = name}

\* the step on which the catch block of sentryCaptureUnhandledExceptionWrapper runs
CatchBlockRuns ==
  /\ pc = "settled" /\ pc' = "finally"
  /\ Plan(wrapped, args).capture
  /\ workResult.kind = "rejected"

\* C24: when a wrapped handler rejects with e, the catch block calls
\* logger.error('Unhandled exception', e) exactly once, before captureException, if
\* and only if NODE_ENV is not 'production' when it runs; with NODE_ENV = 'production'
\* there is no logger call and captureException is still called. No other step of the
\* call logs. (logger.error returning normally.)
C24_LogUnlessProduction ==
  /\ [](Len(loggerCalls) <= 1 /\ (pc \in {"idle", "running", "settled"} => loggerCalls = <<>>))
  /\ [][CatchBlockRuns =>
          /\ (nodeEnv # "production") <=> (Len(loggerCalls') = 1)
          /\ nodeEnv = "production" =>
               /\ loggerCalls' = <<>>
               /\ EventIndex(trace', "loggerError") = {}
               /\ Len(captureCalls') = 1 /\ captureCalls'[1].err = workResult.val
          /\ (nodeEnv # "production" /\ Len(loggerCalls') = 1 /\ ~loggerCalls'[1].threw) =>
               /\ loggerCalls'[1].msg = "Unhandled exception"
               /\ loggerCalls'[1].err = workResult.val
               /\ Len(captureCalls') = 1 /\ captureCalls'[1].err = workResult.val
               /\ \A i \in EventIndex(trace', "loggerError") :
                    \A j \in EventIndex(trace', "captureStart") : i < j
               /\ Cardinality(EventIndex(trace', "loggerError")) = 1
       ]_vars

\* a handler rejected with e2 while NODE_ENV was unset: one logger.error call with e2,
\* then one captureException call with e2
C24_Witness ==
  /\ pc = "finally" /\ nodeEnv = "unset" /\ workResult = Rejected("e2")
  /\ loggerCalls = <<[msg |-> "Unhandled exception", err |-> "e2", threw |-> FALSE]>>
  /\ Len(captureCalls) = 1 /\ captureCalls[1].err = "e2" /\ ~captureCalls[1].threw

-----------------------------------------------------------------------------
(* C25: the user handler's call and the settlement of the wrapped call     *)

ConfigureFailed == Invoked /\ ConfigureThrows(wrapped, args)

-----------------------------------------------------------------------------
(* C28: the scope configuration step throws                                *)

-----------------------------------------------------------------------------
(* C26: invocations in flight at the same time                             *)

InFlight(i) == inv[i].pc \notin {"idle", "done"}

\* what the configure step of invocation i alone writes to a fresh scope
OwnScope(i) == ApplyOps(NewScope(i), ConfigureOps(handlers[i], inv[i].args))

\* C26: with two wrapped invocations in flight and their steps interleaved in any
\* order, the scope of each invocation carries exactly the tags, contexts and user
\* its own configure step wrote (nothing written for the other one), the scope its
\* captureException callback marks is a clone of its own scope, the scope shared by
\* all invocations is never written, each invocation calls flush exactly once, and
\* each invocation settles with its own handler's outcome (or its own configuration
\* or flush error) whatever the other one did.
C26_Independent ==
  /\ globalScope = NewScope(GlobalScopeId)
  /\ \A i \in Invocations :
       LET me == inv[i]
       IN /\ me.pc = "idle" => (me.scope = NoScope /\ me.span = <<>> /\ me.flushes = <<>>)
          /\ me.pc # "idle" =>
               /\ me.scope = OwnScope(i)
               /\ me.span = <<Plan(handlers[i], me.args).context>>
               /\ "function.name" \in DOMAIN me.scope.tags =>
                     me.scope.tags["function.name"] = handlers[i].name
               /\ me.scope.user \in {<<>>, <<me.args.payload>>}
          /\ Len(me.captured) <= 1
          /\ \A c \in 1..Len(me.captured) :
               /\ me.captured[c].err = me.work.val
               /\ me.captured[c].given = [OwnScope(i) EXCEPT !.id = CloneId]
          /\ Len(me.flushes) <= 1
          /\ me.pc \in {"flushing", "done"} => me.flushes = <<FlushTimeout>>
          /\ me.pc = "done" =>
               me.result = (IF me.flushOut = "reject" THEN Rejected("flushError")
                            ELSE IF ConfigureThrows(handlers[i], me.args)
                                   THEN Rejected("configureError")
                            ELSE me.work)

\* a user-change call and a scheduled call are in flight together: the first has
\* rejected and is flushing, the second was started meanwhile and has resolved; the
\* user id is on the first scope only
C26_Witness ==
  /\ handlers["invA"].variant = "onUserChangeV1" /\ handlers["invB"].variant = "onSchedule"
  /\ inv["invA"].pc = "flushing" /\ inv["invA"].work = Rejected("e1")
  /\ Len(inv["invA"].captured) = 1
  /\ inv["invB"].pc = "settled" /\ inv["invB"].work = Resolved("v2")
  /\ inv["invA"].scope.user = <<"p1">> /\ inv["invB"].scope.user = <<>>
  /\ inv["invA"].args.payload # inv["invB"].args.payload

-----------------------------------------------------------------------------
(* C27: extent and termination of the walk                                 *)

\* the positions 1..n in order
Upto(n) == [i \in 1..n |-> i]

-----------------------------------------------------------------------------
(* C29: when the fallback record is written                                *)

StandardSeverities == {Str("DEBUG"), Str("INFO"), Str("WARNING"), Str("ERROR"), Str("CRITICAL")}

RawFallback == ("severity" :> Str("ERROR")) @@ ("message" :> Str(logLine.raw))

FallbackWritten == \E i \in 1..Len(fwCalls) : fwCalls[i] = RawFallback

ValidJson == logLine.json # <<>>

ParsedToNull == IF ValidJson THEN logLine.json[1].t = "null" ELSE FALSE

\* the parsed value carries a field of its own named severity (see C6)
OwnSeverityField ==
  IF ValidJson /\ ~ParsedToNull
    THEN (logLine.json[1].t = "obj" /\ "severity" \in DOMAIN logLine.json[1].f)
    ELSE FALSE

HasNumericLevel ==
  IF ValidJson /\ ~ParsedToNull
    THEN (logLine.json[1].t = "obj" /\ "level" \in DOMAIN logLine.json[1].f)
    ELSE FALSE

-----------------------------------------------------------------------------
(* C30: the facade is fixed when its module is evaluated                   *)

FacadeCalled == facCall.method # "none"

\* C30: backend and minimum level of the facade are fixed when its module is
\* evaluated: no later change of FUNCTIONS_EMULATOR, NODE_ENV or LOG_LEVEL alters
\* them, every call goes to the backend chosen from the environment of that moment,
\* a leveled call in development mode is suppressed according to the LOG_LEVEL of
\* that moment, and in production mode every call is delegated to the native logger
\* whatever LOG_LEVEL is or was.
C30_FixedAtInit ==
  /\ [](FacadeCalled =>
          /\ DevelopmentSignal(facEnv) =>
               /\ \A i \in 1..Len(facOut) : facOut[i].sink = "console"
               /\ (facCall.method \in LeveledMethods
                     /\ facEnv.logLevel \in {"debug", "info", "warn", "error"}) =>
                    (facOut # <<>> <=>
                       MethodSeverity(facCall.method) >= LevelSeverity(facEnv.logLevel))
          /\ ~DevelopmentSignal(facEnv) =>
               /\ Len(facOut) = 1
               /\ facOut[1].sink = "firebase"
               /\ facOut[1].args = facCall.args)
  /\ [][facLoaded => /\ facLoaded'
                     /\ facMode' = facMode
                     /\ facMinLevel' = facMinLevel
                     /\ facEnv' = facEnv]_vars

\* the module was evaluated in production with LOG_LEVEL=info; the environment now
\* says emulator with LOG_LEVEL=debug, and a debug call still went to the native logger
C30_Witness ==
  /\ facLoaded
  /\ facEnv = [emulator |-> "false", nodeEnv |-> "production", logLevel |-> "info"]
  /\ env = [emulator |-> "true", nodeEnv |-> "unset", logLevel |-> "debug"]
  /\ facCall = [method |-> "debug", args |-> <<Str("msg")>>]
  /\ Len(facOut) = 1 /\ facOut[1].sink = "firebase"

=============================================================================
